---------------------------- MODULE Spec2Model ----------------------------
(***************************************************************************)
(* A model of the Farmer core of chia-blockchain (chia/farmer/farmer.py):  *)
(* the rolling pool statistics, the signage-point cache with its sweeper   *)
(* task, and the per-pool state machine of update_pool_state.              *)
(*                                                                         *)
(* Python dictionaries are functions whose DOMAIN is the set of keys       *)
(* present; lists are sequences; an Optional value is the empty tuple      *)
(* (None) or a one-element tuple.                                          *)
(***************************************************************************)
EXTENDS Integers, Sequences, FiniteSets, TLC

VARIABLES
    now,                        \* time.time(), in whole seconds
    \* ---- signage-point cache (Farmer.__init__, farmer.py:137-151)
    sps,                        \* sp_hash -> list of NewSignagePoint
    proofs_of_space,            \* sp_hash -> list of (plot identifier, proof)
    quality_str_to_identifiers, \* quality string -> identifiers
    number_of_responses,        \* sp_hash -> int
    cache_add_time,             \* key of the four dictionaries -> time added
    \* ---- _periodically_clear_cache_and_refresh_task locals
    time_slept,
    refresh_slept,
    removed_keys,               \* removed_keys of the latest sweep
    sweep_now,                  \* `now` of the latest sweep, or None
    refresh_events,             \* state_changed("add_connection") was just emitted
    \* ---- pool state
    pool_state,                 \* p2_singleton_puzzle_hash -> pool state dict
    config_pool_list,           \* the pool list of config.yaml, as load_pool_config reads it
    selected_network,           \* config["full_node"]["selected_network"]
    all_root_sks,               \* Farmer.all_root_sks
    authentication_keys,        \* Farmer.authentication_keys
    upd,                        \* locals of the running update_pool_state call
    http_log,                   \* requests and responses of the latest call, in order
    call_notes,                 \* what the latest call logged, per pool
    last_step,                  \* the response handled by the latest step
    succeeded,                  \* pools that had a successful GET /pool_info or GET /farmer
    quiet_calls,                \* calls begun since anything else happened, up to 2
    pool_info_attempts,         \* pool -> time and outcome of its latest GET /pool_info
    first_pool_info,            \* pool -> time and outcome of its first GET /pool_info
    forced_farmer_update,       \* pools whose next_farmer_update set_payout_instructions has reset
    \* ---- history of increment_pool_stats calls
    last_call,                  \* arguments of the latest call, or None
    stat_calls,                 \* number of calls so far
    stat_time,                  \* <<p2, name>> -> current_time of its latest call
    monotone,                   \* no call so far went back in time on its list
    \* ---- proof of space verification
    pos_args,                   \* arguments of verify_and_get_quality_string
    pos_result,                 \* what the call on pos_args returned, or None before it
    prefix_bits_result,         \* calculate_prefix_bits(constants, height) of pos_args
    \* ---- missing signage points
    sp_constants,               \* Farmer.constants: SUB_SLOT_TIME_TARGET, NUM_SPS_SUB_SLOT
    prev_signage_point,         \* Farmer.prev_signage_point: None or <<timestamp, sp>>
    missing_result,             \* latest check_missing_signage_points call and its result
    \* ---- the farmer's tasks and connections
    shut_down,                  \* Farmer._shut_down
    started,                    \* Farmer.started
    manage_pc,                  \* where the manage() context is
    start_task,                 \* state of start_task
    connections,                \* server.get_connections()
    connected,                  \* peers on_connect has been called for
    handshake_task,             \* peer -> state of its handshake_task
    handshakes,                 \* peer -> HarvesterHandshake messages sent to it
    update_pool_state_task,     \* state of _periodically_update_pool_state_task
    cache_clear_task,           \* state of _periodically_clear_cache_and_refresh_task
    task_log,                   \* task -> outcome of its latest iteration
    \* ---- one call of strip_old_entries (farmer.py:76-83)
    strip_args,                 \* the arguments of the call, or None
    strip_result,               \* the list the call returned, or None
    \* ---- harvester connections (farmer.py:153, 282-283, 311-313, 332-337)
    plot_sync_receivers,        \* Farmer.plot_sync_receivers: node id -> connection of its Receiver
    delivered,                  \* connection -> the latest handler called for it
    state_changes,              \* what the latest handler passed to state_changed, in order
    peer_call,                  \* the latest handler call and whether it raised, or None
    \* ---- _periodically_update_pool_state_task (farmer.py:814-830)
    pool_time_slept,            \* its local time_slept
    last_config_access_time,    \* Farmer.last_config_access_time
    config_mtime,               \* st_mtime of config.yaml
    idle_wakeups,               \* iterations in a row that did not call update_pool_state
    iteration_log               \* the calls of the latest iteration, in order

cacheVars == <<sps, proofs_of_space, quality_str_to_identifiers,
               number_of_responses, cache_add_time, time_slept, refresh_slept,
               removed_keys, sweep_now, refresh_events>>
statVars == <<last_call, stat_calls, stat_time, monotone>>
poolVars == <<config_pool_list, selected_network, all_root_sks,
              authentication_keys, upd, http_log, call_notes, last_step,
              succeeded, quiet_calls, pool_info_attempts, first_pool_info,
             forced_farmer_update>>
proofVars == <<pos_args, pos_result, prefix_bits_result>>
signageVars == <<sp_constants, prev_signage_point, missing_result>>
taskVars == <<shut_down, started, manage_pc, start_task, connections, connected,
              handshake_task, handshakes, update_pool_state_task,
              cache_clear_task, task_log>>
stripVars == <<strip_args, strip_result>>
peerVars == <<plot_sync_receivers, delivered, state_changes, peer_call>>
updaterVars == <<pool_time_slept, last_config_access_time, config_mtime, idle_wakeups,
                 iteration_log>>
laterVars == <<peerVars, updaterVars>>
moreVars == <<proofVars, signageVars, taskVars, stripVars, laterVars>>

None == <<>>
Some(value) == <<value>>
Val(optional) == optional[1]

(***************************************************************************)
(* Time.  time.time() is a float; the statistics functions take it in      *)
(* ticks of 1/Subsecond second so that the truncation uint32(current_time) *)
(* is a real conversion.  The clock variable `now` holds whole seconds.    *)
(***************************************************************************)
Subsecond == 2

Float(seconds) == seconds * Subsecond

\* rounding to the next whole second
uint32_rounded_up(current_time) == (current_time + Subsecond - 1) \div Subsecond

\* uint32(current_time): truncation of a non-negative float to whole seconds
uint32(current_time) == current_time \div Subsecond

\* 24 * 60 * 60, farmer.py:108
SecondsPerDay == 24 * 60 * 60

(***************************************************************************)
(* strip_old_entries, farmer.py:76-83.  pairs is a list of                 *)
(* (timestamp, value); timestamps are whole seconds, before is a float.    *)
(***************************************************************************)
TimestampAtLeast(timestamp, before) == Float(timestamp) >= before

\* the index at which the for loop returns, 0 when it runs to the end
FirstIndexAtLeast(pairs, before) ==
    IF \E i \in 1..Len(pairs) : TimestampAtLeast(pairs[i][1], before)
    THEN CHOOSE i \in 1..Len(pairs) :
            /\ TimestampAtLeast(pairs[i][1], before)
            /\ \A j \in 1..(i - 1) : ~TimestampAtLeast(pairs[j][1], before)
    ELSE 0

strip_old_entries_keep_all(pairs, before) == pairs

\* keeping every entry that is recent enough, wherever it is in the list
strip_old_entries_filtering(pairs, before) ==
    SelectSeq(pairs, LAMBDA pair : TimestampAtLeast(pair[1], before))

strip_old_entries(pairs, before) ==
    LET index == FirstIndexAtLeast(pairs, before) IN
    IF index = 0 THEN <<>>
    ELSE IF index = 1 THEN pairs
    ELSE SubSeq(pairs, index, Len(pairs))

(***************************************************************************)
(* increment_pool_stats, farmer.py:86-110.                                 *)
(***************************************************************************)
\* increment_pool_stats that stores count as the new <name>_since_start
increment_pool_stats_storing_count(pool_states, p2_singleton_puzzlehash, name, current_time, count, value) ==
    IF p2_singleton_puzzlehash \notin DOMAIN pool_states THEN pool_states
    ELSE
      LET ps0 == pool_states[p2_singleton_puzzlehash]
          since_start == name \o "_since_start"
          list_24h == name \o "_24h"
          ps1 == IF since_start \in DOMAIN ps0
                 THEN [ps0 EXCEPT ![since_start] = count]
                 ELSE ps0
          entry == IF value = None
                   THEN <<uint32(current_time), ps1.current_difficulty>>
                   ELSE <<uint32(current_time), value>>
          cutoff_24h == current_time - Float(SecondsPerDay)
          ps2 == IF list_24h \in DOMAIN ps1
                 THEN [ps1 EXCEPT ![list_24h] =
                          strip_old_entries(Append(@, entry), cutoff_24h)]
                 ELSE ps1
      IN [pool_states EXCEPT ![p2_singleton_puzzlehash] = ps2]

increment_pool_stats(pool_states, p2_singleton_puzzlehash, name, current_time, count, value) ==
    IF p2_singleton_puzzlehash \notin DOMAIN pool_states THEN pool_states
    ELSE
      LET ps0 == pool_states[p2_singleton_puzzlehash]
          since_start == name \o "_since_start"
          list_24h == name \o "_24h"
          ps1 == IF since_start \in DOMAIN ps0
                 THEN [ps0 EXCEPT ![since_start] = @ + count]
                 ELSE ps0
          entry == IF value = None
                   THEN <<uint32(current_time), ps1.current_difficulty>>
                   ELSE <<uint32(current_time), value>>
          cutoff_24h == current_time - Float(SecondsPerDay)
          ps2 == IF list_24h \in DOMAIN ps1
                 THEN [ps1 EXCEPT ![list_24h] =
                          strip_old_entries(Append(@, entry), cutoff_24h)]
                 ELSE ps1
      IN [pool_states EXCEPT ![p2_singleton_puzzlehash] = ps2]

(***************************************************************************)
(* The pool state dict created by update_pool_state, farmer.py:541-565.    *)
(***************************************************************************)
new_pool_state(pool_config) ==
    [ p2_singleton_puzzle_hash |-> pool_config.p2_singleton_puzzle_hash,
      points_found_since_start |-> 0,
      points_found_24h |-> <<>>,
      points_acknowledged_since_start |-> 0,
      points_acknowledged_24h |-> <<>>,
      next_farmer_update |-> 0,
      next_pool_info_update |-> 0,
      current_points |-> 0,
      current_difficulty |-> None,
      pool_errors_24h |-> <<>>,
      valid_partials_since_start |-> 0,
      valid_partials_24h |-> <<>>,
      invalid_partials_since_start |-> 0,
      invalid_partials_24h |-> <<>>,
      insufficient_partials_since_start |-> 0,
      insufficient_partials_24h |-> <<>>,
      stale_partials_since_start |-> 0,
      stale_partials_24h |-> <<>>,
      missing_partials_since_start |-> 0,
      missing_partials_24h |-> <<>>,
      authentication_token_timeout |-> None,
      plot_count |-> 0,
      pool_config |-> pool_config ]

(***************************************************************************)
(* Pool configurations (PoolWalletConfig, as load_pool_config returns      *)
(* them).  Strings that the code inspects are sequences of pieces: a URL   *)
(* is <<scheme, host, path pieces...>>, payout instructions are a          *)
(* sequence of characters.                                                 *)
(***************************************************************************)
P2s == {"p2_A", "p2_B"}

PoolConfig(p2, url, payout, owner_pk) ==
    [ launcher_id |-> "launcher_" \o p2,
      pool_url |-> url,
      payout_instructions |-> payout,
      target_puzzle_hash |-> "target_" \o p2,
      owner_public_key |-> owner_pk,
      p2_singleton_puzzle_hash |-> p2 ]

(***************************************************************************)
(* Specification of the statistics functions: increment_pool_stats is      *)
(* called with arbitrary arguments on a pool_state holding one record.     *)
(***************************************************************************)
MaxStatCalls == 3

StatNames == {"points_found", "pool_errors", "plot"}
StatTimes == { Float(10), Float(10) + 1,
               Float(10 + SecondsPerDay), Float(10 + SecondsPerDay) + 1 }
StatValues == {None, <<"error_code", 1>>}
StatLists == P2s \X StatNames

StatCall(p2, name, current_time, count, value) ==
    /\ stat_calls < MaxStatCalls
    /\ pool_state' = increment_pool_stats(pool_state, p2, name, current_time, count, value)
    /\ last_call' = Some([p2 |-> p2, name |-> name, current_time |-> current_time,
                          count |-> count, value |-> value])
    /\ stat_calls' = stat_calls + 1
    /\ stat_time' = [stat_time EXCEPT ![<<p2, name>>] = current_time]
    /\ monotone' = (monotone /\ current_time >= stat_time[<<p2, name>>])

(***************************************************************************)
(* The signage-point cache.  Keys of sps, proofs_of_space and              *)
(* number_of_responses are sp hashes, keys of quality_str_to_identifiers   *)
(* are quality strings; both are SHA-256 values of different data, taken   *)
(* here from two disjoint sets.                                            *)
(***************************************************************************)
SpHashes == {"sp_1", "sp_2"}
Qualities == {"q_1", "q_2"}

SignagePoints ==
    { [challenge_hash |-> "c_1", sp_hash |-> "sp_1", signage_point_index |-> 1],
      [challenge_hash |-> "c_2", sp_hash |-> "sp_1", signage_point_index |-> 1],
      [challenge_hash |-> "c_1", sp_hash |-> "sp_2", signage_point_index |-> 2] }

\* consensus constant SUB_SLOT_TIME_TARGET (600 on mainnet), scaled down
SUB_SLOT_TIME_TARGET == 1
\* the refresh period of farmer.py:857 (30 iterations), scaled down
RefreshPeriod == 2
\* the clock stops here
MaxTime == 3 * SUB_SLOT_TIME_TARGET + 2

\* {}: the dictionary with no key
EmptyDict == [k \in {} |-> None]
\* d[key] = value, adding the key when it is missing
Put(d, key, value) == [k \in DOMAIN d \cup {key} |-> IF k = key THEN value ELSE d[k]]
\* d.pop(key, None) for every key of keys
PopAll(d, keys) == [k \in DOMAIN d \ keys |-> d[k]]
Range(seq) == {seq[i] : i \in DOMAIN seq}

\* insert_sp: the signage point joins the list of its sp_hash, in arrival
\* order, and the insertion time of the key is recorded
insert_sp(sp) ==
    /\ IF sp.sp_hash \in DOMAIN sps THEN sp \notin Range(sps[sp.sp_hash]) ELSE TRUE
    /\ sps' = Put(sps, sp.sp_hash,
                  IF sp.sp_hash \in DOMAIN sps THEN Append(sps[sp.sp_hash], sp) ELSE <<sp>>)
    /\ cache_add_time' = Put(cache_add_time, sp.sp_hash, now)
    /\ UNCHANGED <<proofs_of_space, quality_str_to_identifiers, number_of_responses>>

\* insert_proof: a verified proof for a cached signage point is recorded,
\* counted and indexed by its quality string; the first proof of a quality
\* is admitted and duplicates are rejected.  cache_add_time records the
\* insertion time under every key written (farmer.py:149-150).
insert_proof(sp_hash, quality, plot_identifier, peer_id) ==
    /\ sp_hash \in DOMAIN sps
    /\ quality \notin DOMAIN quality_str_to_identifiers
    /\ proofs_of_space' = Put(proofs_of_space, sp_hash,
            IF sp_hash \in DOMAIN proofs_of_space
            THEN Append(proofs_of_space[sp_hash], <<plot_identifier, quality>>)
            ELSE << <<plot_identifier, quality>> >>)
    /\ number_of_responses' = Put(number_of_responses, sp_hash,
            IF sp_hash \in DOMAIN number_of_responses
            THEN number_of_responses[sp_hash] + 1 ELSE 1)
    /\ quality_str_to_identifiers' = Put(quality_str_to_identifiers, quality,
            [ plot_identifier |-> plot_identifier, sp_hash |-> sp_hash,
              challenge_hash |-> sps[sp_hash][1].challenge_hash, peer_id |-> peer_id ])
    /\ cache_add_time' = Put(Put(cache_add_time, sp_hash, now), quality, now)
    /\ UNCHANGED sps

(***************************************************************************)
(* _periodically_clear_cache_and_refresh_task, farmer.py:832-864: one      *)
(* iteration of the loop, from the end of a sleep to the next sleep.       *)
(***************************************************************************)
\* farmer.py:841
ExpiredOrAtLimit(add_time, time_now) == time_now - add_time >= SUB_SLOT_TIME_TARGET * 3
Expired(add_time, time_now) == time_now - add_time > SUB_SLOT_TIME_TARGET * 3

\* farmer.py:839-846: the keys the loop over cache_add_time collects
KeysToRemove(time_now) ==
    {key \in DOMAIN cache_add_time : Expired(cache_add_time[key], time_now)}

\* farmer.py:842-848: the pops
ClearQualityIndexNot(keys) == quality_str_to_identifiers' = quality_str_to_identifiers
ClearQualityIndex(keys) == quality_str_to_identifiers' = PopAll(quality_str_to_identifiers, keys)

ClearCache(keys) ==
    /\ sps' = PopAll(sps, keys)
    /\ proofs_of_space' = PopAll(proofs_of_space, keys)
    /\ ClearQualityIndex(keys)
    /\ number_of_responses' = PopAll(number_of_responses, keys)
    /\ cache_add_time' = PopAll(cache_add_time, keys)

\* asyncio.sleep(1), farmer.py:864, returns after at least one second
SleepTimes == {1, 2}

SweeperIteration(slept) ==
    /\ now + slept <= MaxTime
    /\ now' = now + slept
    /\ IF time_slept > SUB_SLOT_TIME_TARGET
       THEN /\ ClearCache(KeysToRemove(now'))
            /\ removed_keys' = KeysToRemove(now')
            /\ sweep_now' = Some(now')
            /\ time_slept' = 0 + 1
       ELSE /\ UNCHANGED <<sps, proofs_of_space, quality_str_to_identifiers,
                           number_of_responses, cache_add_time, removed_keys, sweep_now>>
            /\ time_slept' = time_slept + 1
    /\ IF refresh_slept + 1 >= RefreshPeriod
       THEN refresh_slept' = 0 /\ refresh_events' = TRUE
       ELSE refresh_slept' = refresh_slept + 1 /\ refresh_events' = FALSE

(***************************************************************************)
(* The pool client: update_pool_state, farmer.py:526-663, and the          *)
(* requests it awaits.                                                     *)
(***************************************************************************)
\* farmer.py:65-67
UPDATE_POOL_INFO_INTERVAL == 3600
UPDATE_POOL_INFO_FAILURE_RETRY_INTERVAL == 120
UPDATE_POOL_FARMER_INFO_INTERVAL == 300

\* ---- keys.  A root secret key yields one singleton owner key and, from
\* it, one pooling authentication key.
OwnerPk(root) == "owner_" \o root
AuthSk(root) == "auth_" \o root

\* find_authentication_sk(all_root_sks, owner_public_key): the
\* authentication key of the root whose owner key matches, or None
find_authentication_sk(root_sks, owner_pk) ==
    IF \E r \in root_sks : OwnerPk(r) = owner_pk
    THEN Some(AuthSk(CHOOSE r \in root_sks : OwnerPk(r) = owner_pk))
    ELSE None

\* find_owner_sk(all_root_sks, owner_public_key): found or not
find_owner_sk(root_sks, owner_pk) == \E r \in root_sks : OwnerPk(r) = owner_pk

\* ---- strings the code inspects
EmptyUrl == <<>>
HttpsA == <<"https://", "a">>
HttpA == <<"http://", "a">>
HttpsB == <<"https://", "b">>

\* pool_url.startswith("https://"), farmer.py:577
StartsWithHttps(url) == Len(url) >= 1 /\ url[1] = "https://"

\* f"{pool_config.pool_url}/pool_info", farmer.py:349
PoolInfoUrl(pool_url) == Append(pool_url, "/pool_info")

\* response_url_str.replace("/pool_info", ""), farmer.py:361
RemovePoolInfo(url) == SelectSeq(url, LAMBDA piece : piece # "/pool_info")

\* str.lower() on the characters used
LowerChar(ch) ==
    CASE ch = "A" -> "a"
      [] ch = "B" -> "b"
      [] OTHER -> ch
Lower(str) == [i \in DOMAIN str |-> LowerChar(str[i])]

PermanentRedirects == {301, 308}

\* farmer.py:354-361: the new pool URL a 2xx GET /pool_info yields
NewPoolUrlAnyPermanent(url, resp) ==
    IF /\ resp.url # url
       /\ Len(resp.history) > 0
       /\ \E i \in DOMAIN resp.history : resp.history[i] \in PermanentRedirects
    THEN Some(RemovePoolInfo(resp.url))
    ELSE None

NewPoolUrl(url, resp) ==
    IF /\ resp.url # url
       /\ Len(resp.history) > 0
       /\ \A i \in DOMAIN resp.history : resp.history[i] \in PermanentRedirects
    THEN Some(RemovePoolInfo(resp.url))
    ELSE None

\* farmer.py:645-648
PayoutUpdateRequiredCaseSensitive(farmer_info, pool_config) ==
    /\ farmer_info # None
    /\ pool_config.payout_instructions # Val(farmer_info).payout_instructions

payout_instructions_update_required(farmer_info, pool_config) ==
    /\ farmer_info # None
    /\ Lower(pool_config.payout_instructions) # Lower(Val(farmer_info).payout_instructions)

\* farmer.py:573
SelfPoolingNever(pool_config) == FALSE

SelfPooling(pool_config) == pool_config.pool_url = EmptyUrl

\* farmer.py:576-577
HttpsNeverEnforced(network, pool_url) == FALSE

HttpsViolation(network, pool_url) ==
    /\ network = "mainnet"
    /\ ~StartsWithHttps(pool_url)

\* get_current_authentication_token(timeout): int(int(time.time() / 60) / timeout);
\* None stands for the ZeroDivisionError of a zero timeout
AuthenticationToken(time_now, timeout) ==
    IF timeout = 0 THEN None ELSE Some((time_now \div 60) \div timeout)

\* ErrorResponse(PoolErrorCode.REQUEST_FAILED, message).to_json_dict(), farmer.py:329
RequestFailed == [error_code |-> "REQUEST_FAILED"]

\* handle_failed_pool_response, farmer.py:322-330
handle_failed_pool_response(pool_states, p2, time_now) ==
    increment_pool_stats(pool_states, p2, "pool_errors", Float(time_now), 1, RequestFailed)

\* the error codes PoolErrorCode(...) accepts, farmer.py:617
PoolErrorCodes == {"FARMER_NOT_KNOWN", "INVALID_SIGNATURE", "TOO_MANY_REQUESTS"}

\* get_authentication_sk, farmer.py:518-524: the value it returns ...
AuthenticationSk(keys, root_sks, pool_config) ==
    IF pool_config.p2_singleton_puzzle_hash \in DOMAIN keys
    THEN Some(keys[pool_config.p2_singleton_puzzle_hash])
    ELSE find_authentication_sk(root_sks, pool_config.owner_public_key)

\* ... and the authentication_keys it leaves behind
CacheAuthenticationSk(keys, root_sks, pool_config) ==
    LET auth_sk == find_authentication_sk(root_sks, pool_config.owner_public_key) IN
    IF pool_config.p2_singleton_puzzle_hash \notin DOMAIN keys /\ auth_sk # None
    THEN Put(keys, pool_config.p2_singleton_puzzle_hash, Val(auth_sk))
    ELSE keys

\* farmer.py:540-568
RecordPoolAlwaysNew(pool_states, pool_config) ==
    Put(pool_states, pool_config.p2_singleton_puzzle_hash, new_pool_state(pool_config))

RecordPool(pool_states, pool_config) ==
    IF pool_config.p2_singleton_puzzle_hash \notin DOMAIN pool_states
    THEN Put(pool_states, pool_config.p2_singleton_puzzle_hash, new_pool_state(pool_config))
    ELSE [pool_states EXCEPT ![pool_config.p2_singleton_puzzle_hash].pool_config = pool_config]

\* farmer.py:583 and farmer.py:593
NextPoolInfoUpdate(time_now) == time_now + UPDATE_POOL_INFO_INTERVAL
\* a retry that is due at once
PoolInfoRetryAtOnce(time_now) == time_now
PoolInfoRetry(time_now) == time_now + UPDATE_POOL_INFO_FAILURE_RETRY_INTERVAL

\* farmer.py:599
NextFarmerUpdateNotAdvanced(time_now) == 0

NextFarmerUpdate(time_now) == time_now + UPDATE_POOL_FARMER_INFO_INTERVAL

\* update_pool_url(root_path, pool_config, new_pool_url): rewrites pool_url
\* of the configuration entries of that launcher
update_pool_url(pool_list, pool_config, new_pool_url) ==
    [i \in DOMAIN pool_list |->
        IF pool_list[i].launcher_id = pool_config.launcher_id
        THEN [pool_list[i] EXCEPT !.pool_url = new_pool_url]
        ELSE pool_list[i]]

(***************************************************************************)
(* One update_pool_state call.  A context c holds the locals of the call   *)
(* and the parts of the farmer it reads and writes:                        *)
(*   time      time.time()                                                 *)
(*   ps, ak    self.pool_state, self.authentication_keys                   *)
(*   cfg       the pool list of the configuration file                     *)
(*   roots     self.all_root_sks                                           *)
(*   net       config["full_node"]["selected_network"]                     *)
(*   list, idx pool_config_list and the position of the for loop           *)
(*   pc        the await the call is suspended at, "idle" when it is over   *)
(*   att, farmer_info, error_code   the locals of farmer.py:600-626        *)
(*   log, notes, persisted, succeeded   what the call did                  *)
(* Each operator below runs the code from one point up to the next await   *)
(* or the end of the call.                                                 *)
(***************************************************************************)
Event(event, request, p2, outcome, code, payout) ==
    [ event |-> event, request |-> request, p2 |-> p2,
      outcome |-> outcome, code |-> code, payout |-> payout ]

\* session.get / session.post / session.put is entered: the request is sent
Send(c, request, payout) ==
    [c EXCEPT !.log = Append(@, Event("request", request,
                  c.list[c.idx].p2_singleton_puzzle_hash, "sent", "", payout))]

\* the response the await returns with
Receive(c, request, resp) ==
    [c EXCEPT !.log = Append(@, Event("response", request,
                  c.list[c.idx].p2_singleton_puzzle_hash,
                  IF ~resp.ok THEN "failed"
                  ELSE IF "error_code" \in DOMAIN resp.body THEN "error_code"
                  ELSE "ok",
                  IF resp.ok /\ "error_code" \in DOMAIN resp.body
                  THEN resp.body.error_code ELSE "",
                  IF resp.ok /\ "payout_instructions" \in DOMAIN resp.body
                  THEN resp.body.payout_instructions ELSE <<>>))]

Await(c, pc) == [c EXCEPT !.pc = pc]

\* self.log.error / self.log.warning of the call, per pool
Note(c, note) ==
    [c EXCEPT !.notes = @ \cup {<<c.list[c.idx].p2_singleton_puzzle_hash, note>>}]

\* the pool-error bookkeeping of _pool_get_farmer, _pool_post_farmer and
\* _pool_put_farmer: farmer.py:399-421, 447-469, 495-516
CountPoolError(c, resp) ==
    LET p2 == c.list[c.idx].p2_singleton_puzzle_hash IN
    IF ~resp.ok
    THEN [c EXCEPT !.ps = handle_failed_pool_response(@, p2, c.time)]
    ELSE IF "error_code" \in DOMAIN resp.body
    THEN [c EXCEPT !.ps = increment_pool_stats(@, p2, "pool_errors",
                                               Float(c.time), 1, resp.body)]
    ELSE c

RECURSIVE ForPoolConfig(_)

\* `continue`, and falling off the end of the loop body
Continue(c) ==
    ForPoolConfig([c EXCEPT !.idx = @ + 1, !.att = None,
                            !.farmer_info = None, !.error_code = None])

\* an exception that leaves the for loop and ends the call
RaiseOutOfLoop(c) == Await(Note(c, "exception"), "idle")

\* except Exception, farmer.py:661-663
Raise(c) == Continue(Note(c, "exception"))

\* _pool_put_farmer up to its await, farmer.py:475-494
PutFarmer(c) ==
    IF AuthenticationSk(c.ak, c.roots, c.list[c.idx]) = None
       \/ AuthenticationToken(c.time, Val(c.att)) = None
    THEN Raise(c)
    ELSE Await(Send(c, "PUT /farmer", c.list[c.idx].payout_instructions), "put_farmer")

\* a check that sends PUT /farmer for changed payout instructions only
PayoutCheckWithoutSignatureCase(c) ==
    LET pool_config == c.list[c.idx] IN
    IF payout_instructions_update_required(c.farmer_info, pool_config)
    THEN IF find_owner_sk(c.roots, pool_config.owner_public_key)
         THEN PutFarmer(c)
         ELSE Raise(c)
    ELSE Continue(c)

\* farmer.py:645-654
PayoutCheck(c) ==
    LET pool_config == c.list[c.idx] IN
    IF \/ payout_instructions_update_required(c.farmer_info, pool_config)
       \/ c.error_code = Some("INVALID_SIGNATURE")
    THEN IF find_owner_sk(c.roots, pool_config.owner_public_key)
         THEN PutFarmer(c)
         ELSE Raise(c)
    ELSE Continue(c)

\* the rest of _pool_put_farmer, farmer.py:495-516
AfterPutFarmer(c, resp) ==
    Continue(CountPoolError(Receive(c, "PUT /farmer", resp), resp))

\* a GET /farmer that is sent without the authentication token
GetFarmerWithoutToken(c, pc) == Await(Send(c, "GET /farmer", <<>>), pc)

\* _pool_get_farmer up to its await, farmer.py:380-398
GetFarmer(c, pc) ==
    IF AuthenticationToken(c.time, Val(c.att)) = None
    THEN Raise(c)
    ELSE Await(Send(c, "GET /farmer", <<>>), pc)

\* _pool_post_farmer up to its await, farmer.py:427-446
PostFarmer(c) ==
    IF AuthenticationSk(c.ak, c.roots, c.list[c.idx]) = None
       \/ AuthenticationToken(c.time, Val(c.att)) = None
    THEN Raise(c)
    ELSE Await(Send(c, "POST /farmer", c.list[c.idx].payout_instructions), "post_farmer")

\* update_pool_farmer_info after its await, farmer.py:607-623, with the
\* rest of _pool_get_farmer: the farmer_response it returns ...
FarmerResponse(resp) ==
    IF resp.ok /\ "error_code" \notin DOMAIN resp.body
    THEN Some([ current_difficulty |-> resp.body.current_difficulty,
                current_points |-> resp.body.current_points,
                payout_instructions |-> resp.body.payout_instructions ])
    ELSE None

\* ... the error_code_response it returns ...
ErrorCodeResponse(resp) ==
    IF resp.ok /\ "error_code" \in DOMAIN resp.body
               /\ resp.body.error_code \in PoolErrorCodes
    THEN Some(resp.body.error_code)
    ELSE None

\* ... and what it does to the farmer
update_pool_farmer_info(c, resp) ==
    LET p2 == c.list[c.idx].p2_singleton_puzzle_hash
        c1 == CountPoolError(Receive(c, "GET /farmer", resp), resp)
    IN  IF FarmerResponse(resp) # None
        THEN [c1 EXCEPT !.ps[p2].current_difficulty = Some(resp.body.current_difficulty),
                        !.ps[p2].current_points = resp.body.current_points,
                        !.succeeded = @ \cup {p2}]
        ELSE c1

\* farmer.py:626-633, after the first GET /farmer
AfterGetFarmer(c, resp) ==
    LET c1 == [update_pool_farmer_info(c, resp)
                  EXCEPT !.farmer_info = FarmerResponse(resp),
                         !.error_code = ErrorCodeResponse(resp)]
    IN  IF c1.error_code = Some("FARMER_NOT_KNOWN")
        THEN IF find_owner_sk(c1.roots, c1.list[c1.idx].owner_public_key)
             THEN PostFarmer(c1)
             ELSE Raise(c1)
        ELSE PayoutCheck(c1)

\* farmer.py:634-639 with the rest of _pool_post_farmer, farmer.py:447-470
AfterPostFarmerWithoutRefresh(c, resp) ==
    PayoutCheck(CountPoolError(Receive(c, "POST /farmer", resp), resp))

AfterPostFarmer(c, resp) ==
    LET c1 == CountPoolError(Receive(c, "POST /farmer", resp), resp) IN
    IF resp.ok /\ "error_code" \notin DOMAIN resp.body
    THEN GetFarmer(c1, "get_farmer_again")
    ELSE PayoutCheck(c1)

\* farmer.py:639-641, after the GET /farmer that follows a POST /farmer
AfterGetFarmerAgain(c, resp) ==
    PayoutCheck([update_pool_farmer_info(c, resp)
                    EXCEPT !.farmer_info = FarmerResponse(resp)])

\* a farmer refresh that leaves next_farmer_update as it was when it is
\* skipped for a null authentication_token_timeout
FarmerUpdateKeepingDeadlineWhenSkipped(c) ==
    LET p2 == c.list[c.idx].p2_singleton_puzzle_hash
        c1 == [c EXCEPT !.att = c.ps[p2].authentication_token_timeout]
    IN  IF c.time >= c.ps[p2].next_farmer_update
        THEN IF c1.att # None
             THEN GetFarmer([c1 EXCEPT !.ps[p2].next_farmer_update =
                                            NextFarmerUpdate(c.time)],
                            "get_farmer")
             ELSE Continue(Note(c1, "no_authentication_token_timeout"))
        ELSE Continue(c)

\* a farmer refresh that sends GET /farmer whether or not the pool has
\* reported its authentication_token_timeout
FarmerUpdateWithoutTimeoutCheck(c) ==
    LET p2 == c.list[c.idx].p2_singleton_puzzle_hash IN
    IF c.time >= c.ps[p2].next_farmer_update
    THEN LET c1 == [c EXCEPT !.ps[p2].next_farmer_update = NextFarmerUpdate(c.time),
                             !.att = c.ps[p2].authentication_token_timeout]
         IN  IF c1.att # None
             THEN GetFarmer(c1, "get_farmer")
             ELSE Await(Send(c1, "GET /farmer", <<>>), "get_farmer")
    ELSE Continue(c)

\* farmer.py:598-600, 625, 655-659
FarmerUpdate(c) ==
    LET p2 == c.list[c.idx].p2_singleton_puzzle_hash IN
    IF c.time >= c.ps[p2].next_farmer_update
    THEN LET c1 == [c EXCEPT !.ps[p2].next_farmer_update = NextFarmerUpdate(c.time),
                             !.att = c.ps[p2].authentication_token_timeout]
         IN  IF c1.att # None
             THEN GetFarmer(c1, "get_farmer")
             ELSE Continue(Note(c1, "no_authentication_token_timeout"))
    ELSE Continue(c)

\* a GET /pool_info whose redirected URL is persisted only when the body
\* carries no error_code
AfterPoolInfoPersistingOnSuccessOnly(c, resp) ==
    LET pool_config == c.list[c.idx]
        p2 == pool_config.p2_singleton_puzzle_hash
        new_pool_url == IF resp.ok /\ "error_code" \notin DOMAIN resp.body
                        THEN NewPoolUrl(PoolInfoUrl(pool_config.pool_url), resp)
                        ELSE None
        c1 == Receive(c, "GET /pool_info", resp)
        c2 == IF resp.ok THEN c1
              ELSE [c1 EXCEPT !.ps = handle_failed_pool_response(@, p2, c.time)]
        c3 == IF resp.ok /\ "error_code" \notin DOMAIN resp.body
              THEN [c2 EXCEPT
                      !.ps[p2].authentication_token_timeout =
                          Some(resp.body.authentication_token_timeout),
                      !.ps[p2].current_difficulty =
                          IF @ = None THEN Some(resp.body.minimum_difficulty) ELSE @,
                      !.succeeded = @ \cup {p2}]
              ELSE [c2 EXCEPT !.ps[p2].next_pool_info_update = PoolInfoRetry(c.time)]
        c4 == IF new_pool_url # None
              THEN [c3 EXCEPT !.cfg = update_pool_url(@, pool_config, Val(new_pool_url)),
                              !.persisted = new_pool_url]
              ELSE c3
    IN  FarmerUpdate(c4)

\* a GET /pool_info whose minimum_difficulty replaces current_difficulty
\* every time
AfterPoolInfoOverwritingDifficulty(c, resp) ==
    LET pool_config == c.list[c.idx]
        p2 == pool_config.p2_singleton_puzzle_hash
        new_pool_url == IF resp.ok
                        THEN NewPoolUrl(PoolInfoUrl(pool_config.pool_url), resp)
                        ELSE None
        c1 == Receive(c, "GET /pool_info", resp)
        c2 == IF resp.ok THEN c1
              ELSE [c1 EXCEPT !.ps = handle_failed_pool_response(@, p2, c.time)]
        c3 == IF resp.ok /\ "error_code" \notin DOMAIN resp.body
              THEN [c2 EXCEPT
                      !.ps[p2].authentication_token_timeout =
                          Some(resp.body.authentication_token_timeout),
                      !.ps[p2].current_difficulty = Some(resp.body.minimum_difficulty),
                      !.succeeded = @ \cup {p2}]
              ELSE [c2 EXCEPT !.ps[p2].next_pool_info_update = PoolInfoRetry(c.time)]
        c4 == IF new_pool_url # None
              THEN [c3 EXCEPT !.cfg = update_pool_url(@, pool_config, Val(new_pool_url)),
                              !.persisted = new_pool_url]
              ELSE c3
    IN  FarmerUpdate(c4)

\* farmer.py:586-596 with the rest of _pool_get_pool_info, farmer.py:351-375
AfterPoolInfo(c, resp) ==
    LET pool_config == c.list[c.idx]
        p2 == pool_config.p2_singleton_puzzle_hash
        new_pool_url == IF resp.ok
                        THEN NewPoolUrl(PoolInfoUrl(pool_config.pool_url), resp)
                        ELSE None
        c1 == Receive(c, "GET /pool_info", resp)
        c2 == IF resp.ok THEN c1
              ELSE [c1 EXCEPT !.ps = handle_failed_pool_response(@, p2, c.time)]
        c3 == IF resp.ok /\ "error_code" \notin DOMAIN resp.body
              THEN [c2 EXCEPT
                      !.ps[p2].authentication_token_timeout =
                          Some(resp.body.authentication_token_timeout),
                      !.ps[p2].current_difficulty =
                          IF @ = None THEN Some(resp.body.minimum_difficulty) ELSE @,
                      !.succeeded = @ \cup {p2}]
              ELSE [c2 EXCEPT !.ps[p2].next_pool_info_update = PoolInfoRetry(c.time)]
        c4 == IF new_pool_url # None
              THEN [c3 EXCEPT !.cfg = update_pool_url(@, pool_config, Val(new_pool_url)),
                              !.persisted = new_pool_url]
              ELSE c3
    IN  FarmerUpdate(c4)

\* farmer.py:582-585
PoolInfoUpdate(c) ==
    LET p2 == c.list[c.idx].p2_singleton_puzzle_hash IN
    IF c.time >= c.ps[p2].next_pool_info_update
    THEN Await(Send([c EXCEPT !.ps[p2].next_pool_info_update = NextPoolInfoUpdate(c.time)],
                    "GET /pool_info", <<>>),
               "pool_info")
    ELSE FarmerUpdate(c)

\* a loop body that creates or refreshes the record of the pool ahead of
\* the lookup of its authentication key
ForPoolConfigRecordingFirst(c) ==
    IF c.idx > Len(c.list)
    THEN Await(c, "idle")
    ELSE LET pool_config == c.list[c.idx]
             authentication_sk == AuthenticationSk(c.ak, c.roots, pool_config)
             c1 == [c EXCEPT !.ak = CacheAuthenticationSk(@, c.roots, pool_config),
                             !.ps = RecordPool(@, pool_config)]
         IN  IF authentication_sk = None
             THEN Continue(Note(c1, "no_authentication_sk"))
             ELSE IF SelfPooling(pool_config)
                  THEN Continue(c1)
                  ELSE IF HttpsViolation(c1.net, pool_config.pool_url)
                  THEN Continue(Note(c1, "https_required"))
                  ELSE PoolInfoUpdate(c1)

\* the for loop from farmer.py:530, up to farmer.py:579
ForPoolConfig(c) ==
    IF c.idx > Len(c.list)
    THEN Await(c, "idle")
    ELSE LET pool_config == c.list[c.idx]
             authentication_sk == AuthenticationSk(c.ak, c.roots, pool_config)
             c1 == [c EXCEPT !.ak = CacheAuthenticationSk(@, c.roots, pool_config)]
         IN  IF authentication_sk = None
             THEN Continue(Note(c1, "no_authentication_sk"))
             ELSE LET c2 == [c1 EXCEPT !.ps = RecordPool(@, pool_config)] IN
                  IF SelfPooling(pool_config)
                  THEN Continue(c2)
                  ELSE IF HttpsViolation(c2.net, pool_config.pool_url)
                  THEN Continue(Note(c2, "https_required"))
                  ELSE PoolInfoUpdate(c2)

(***************************************************************************)
(* The pool-state updater and its surroundings as actions.                 *)
(***************************************************************************)
\* the pools answer within the interface of the pool protocol, or fail
Failed == [ok |-> FALSE, url |-> <<>>, history |-> <<>>, body |-> [status |-> 500]]
Plain(body) == [ok |-> TRUE, url |-> <<>>, history |-> <<>>, body |-> body]

Moved == PoolInfoUrl(HttpsB)
Redirects(url) ==
    { <<url, <<>> >>, <<Moved, <<301, 308>> >>, <<Moved, <<301, 302>> >>,
      <<url, <<308>> >>, <<Moved, <<>> >> }

AuthenticationTokenTimeouts == {5, 0}
PoolInfoBodies ==
    {[authentication_token_timeout |-> t, minimum_difficulty |-> 1] :
        t \in AuthenticationTokenTimeouts}
    \cup {[error_code |-> "SERVER_EXCEPTION"]}
PoolInfoResponses(url) ==
    {Failed} \cup
    {[ok |-> TRUE, url |-> r[1], history |-> r[2], body |-> b] :
        r \in Redirects(url), b \in PoolInfoBodies}

ConfiguredPayouts == {<<"b">>}
ReportedPayouts == {<<"a">>, <<"b">>}
GetFarmerResponses ==
    {Failed}
    \cup {Plain([current_difficulty |-> 2, current_points |-> 7,
                 payout_instructions |-> p]) : p \in ReportedPayouts}
    \cup {Plain([error_code |-> e]) :
            e \in {"FARMER_NOT_KNOWN", "INVALID_SIGNATURE", "NOT_A_CODE"}}
PostFarmerResponses ==
    {Failed, Plain([welcome_message |-> "welcome"]), Plain([error_code |-> "INVALID_SIGNATURE"])}
PutFarmerResponses ==
    {Failed, Plain(EmptyDict), Plain([error_code |-> "INVALID_SIGNATURE"])}

\* the configurations tried, as <<selected_network, pool list>>: a
\* self-pooling entry ahead of a pool over https on mainnet, a pool over
\* http on mainnet, a self-pooling entry behind a pool over http on
\* testnet, and a self-pooling entry alone
Configurations ==
    { <<"mainnet", << PoolConfig("p2_B", EmptyUrl, <<"A">>, OwnerPk("root_1")),
                      PoolConfig("p2_A", HttpsA, <<"A">>, OwnerPk("root_1")) >> >>,
      <<"mainnet", << PoolConfig("p2_A", HttpA, <<"A">>, OwnerPk("root_1")) >> >>,
      <<"testnet", << PoolConfig("p2_A", HttpA, <<"A">>, OwnerPk("root_1")),
                      PoolConfig("p2_B", EmptyUrl, <<"A">>, OwnerPk("root_1")) >> >>,
      <<"mainnet", << PoolConfig("p2_A", EmptyUrl, <<"A">>, OwnerPk("root_1")) >> >> }

\* what get_all_private_keys() can return: the root of the pools' owner
\* key, or another root
Keychains == {{"root_1"}, {"root_2"}}

\* calls are started while every pool_errors_24h is shorter than this
MaxPoolErrors == 2
\* the times at which a call starts: when the task starts, and when each
\* of the three intervals has passed
CallTimes == { 0, UPDATE_POOL_INFO_FAILURE_RETRY_INTERVAL,
               UPDATE_POOL_FARMER_INFO_INTERVAL,
               UPDATE_POOL_INFO_INTERVAL }

IdleUpd == [ pc |-> "idle", list |-> <<>>, idx |-> 0, att |-> None,
             farmer_info |-> None, error_code |-> None ]

Context ==
    [ time |-> now, ps |-> pool_state, ak |-> authentication_keys,
      cfg |-> config_pool_list, roots |-> all_root_sks, net |-> selected_network,
      list |-> upd.list, idx |-> upd.idx, pc |-> upd.pc, att |-> upd.att,
      farmer_info |-> upd.farmer_info, error_code |-> upd.error_code,
      log |-> http_log, notes |-> call_notes, persisted |-> None,
      succeeded |-> succeeded ]

\* the history of the GET /pool_info requests: the response that this step
\* handles completes the attempt of its pool, and each request that this
\* step sends starts one at the time of the call
PoolInfoAttempts(c) ==
    LET first == IF upd.pc = "idle" THEN 1 ELSE Len(http_log) + 1
        answered ==
            IF upd.pc = "pool_info"
            THEN [pool_info_attempts EXCEPT
                    ![c.log[first].p2].outcome = c.log[first].outcome]
            ELSE pool_info_attempts
        sent == {i \in first..Len(c.log) : /\ c.log[i].event = "request"
                                           /\ c.log[i].request = "GET /pool_info"}
    IN  [p2 \in DOMAIN answered \cup {c.log[i].p2 : i \in sent} |->
            IF \E i \in sent : c.log[i].p2 = p2
            THEN [time |-> c.time, outcome |-> "sent"]
            ELSE answered[p2]]

\* the first GET /pool_info of each pool: the attempts of this step, kept
\* for the pools that had none before
FirstPoolInfo(c) ==
    LET attempts == PoolInfoAttempts(c) IN
    [p2 \in DOMAIN attempts |->
        IF p2 \in DOMAIN first_pool_info /\ first_pool_info[p2].outcome # "sent"
        THEN first_pool_info[p2]
        ELSE IF p2 \in DOMAIN first_pool_info
        THEN [first_pool_info[p2] EXCEPT !.outcome = attempts[p2].outcome]
        ELSE attempts[p2]]

Commit(c) ==
    /\ pool_state' = c.ps
    /\ authentication_keys' = c.ak
    /\ config_pool_list' = c.cfg
    /\ upd' = [ pc |-> c.pc, list |-> c.list, idx |-> c.idx, att |-> c.att,
                farmer_info |-> c.farmer_info, error_code |-> c.error_code ]
    /\ http_log' = c.log
    /\ call_notes' = c.notes
    /\ succeeded' = c.succeeded
    /\ pool_info_attempts' = PoolInfoAttempts(c)
    /\ first_pool_info' = FirstPoolInfo(c)
    /\ UNCHANGED forced_farmer_update

\* _periodically_update_pool_state_task, farmer.py:817-830: the sleeps
\* since the previous call, then one call of update_pool_state, after a
\* refresh of the root keys when the configuration file changed, up to its
\* first await.  The first call runs as the task starts.
UpdateStart(refresh, keychain, time_now) ==
    /\ upd.pc = "idle"
    /\ \A p2 \in DOMAIN pool_state : Len(pool_state[p2].pool_errors_24h) < MaxPoolErrors
    /\ time_now >= now
    /\ now' = time_now
    /\ all_root_sks' = IF refresh THEN keychain ELSE all_root_sks
    /\ LET c == ForPoolConfig([Context EXCEPT
                    !.time = time_now,
                    !.roots = IF refresh THEN keychain ELSE all_root_sks,
                    !.list = config_pool_list, !.idx = 1,
                    !.log = <<>>, !.notes = {}])
       IN  Commit(c)
    /\ last_step' = None
    /\ quiet_calls' = IF (refresh /\ keychain # all_root_sks) \/ time_now > now THEN 1
                      ELSE IF quiet_calls < 2 THEN quiet_calls + 1 ELSE 2
    /\ UNCHANGED selected_network

\* the awaited GET /pool_info returns
PoolInfoResponse ==
    /\ upd.pc = "pool_info"
    /\ \E resp \in PoolInfoResponses(PoolInfoUrl(upd.list[upd.idx].pool_url)) :
          LET c == AfterPoolInfo(Context, resp) IN
          /\ Commit(c)
          /\ last_step' = Some([ p2 |-> upd.list[upd.idx].p2_singleton_puzzle_hash,
                                 pool_url |-> upd.list[upd.idx].pool_url,
                                 resp |-> resp, persisted |-> c.persisted ])
    /\ UNCHANGED <<now, selected_network, all_root_sks, quiet_calls>>

\* the awaited GET /farmer returns
GetFarmerResponse ==
    /\ upd.pc = "get_farmer"
    /\ \E resp \in GetFarmerResponses  :
          LET c == AfterGetFarmer(Context, resp) IN Commit(c)
    /\ last_step' = None
    /\ UNCHANGED <<now, selected_network, all_root_sks, quiet_calls>>

\* the awaited POST /farmer returns
PostFarmerResponse ==
    /\ upd.pc = "post_farmer"
    /\ \E resp \in PostFarmerResponses  :
          LET c == AfterPostFarmer(Context, resp) IN Commit(c)
    /\ last_step' = None
    /\ UNCHANGED <<now, selected_network, all_root_sks, quiet_calls>>

\* the awaited second GET /farmer returns
GetFarmerAgainResponse ==
    /\ upd.pc = "get_farmer_again"
    /\ \E resp \in GetFarmerResponses  :
          LET c == AfterGetFarmerAgain(Context, resp) IN Commit(c)
    /\ last_step' = None
    /\ UNCHANGED <<now, selected_network, all_root_sks, quiet_calls>>

\* the awaited PUT /farmer returns
PutFarmerResponse ==
    /\ upd.pc = "put_farmer"
    /\ \E resp \in PutFarmerResponses  :
          LET c == AfterPutFarmer(Context, resp) IN Commit(c)
    /\ last_step' = None
    /\ UNCHANGED <<now, selected_network, all_root_sks, quiet_calls>>

\* set_payout_instructions, farmer.py:713-731
set_payout_instructions(launcher_id, payout_instructions) ==
    LET known == {p2 \in DOMAIN pool_state :
                     pool_state[p2].pool_config.launcher_id = launcher_id}
    IN  /\ config_pool_list' =
              IF known = {} THEN config_pool_list
              ELSE [i \in DOMAIN config_pool_list |->
                      IF config_pool_list[i].launcher_id = launcher_id
                      THEN [config_pool_list[i] EXCEPT
                              !.payout_instructions = payout_instructions]
                      ELSE config_pool_list[i]]
        /\ pool_state' =
              [p2 \in DOMAIN pool_state |->
                  IF p2 \in known
                  THEN [pool_state[p2] EXCEPT !.next_farmer_update = 0]
                  ELSE pool_state[p2]]
        /\ quiet_calls' = 0
        /\ forced_farmer_update' = forced_farmer_update \cup known
        /\ UNCHANGED <<now, selected_network, all_root_sks,
                       authentication_keys, upd, http_log, call_notes, last_step,
                       succeeded, pool_info_attempts, first_pool_info>>

(***************************************************************************)
(* Proof of space verification, proof_of_space.py.  A bytes32 value is an  *)
(* integer of HashBits bits, a byte string a sequence of such integers,    *)
(* and std_hash a mixing function onto HashBits bits.                      *)
(***************************************************************************)
HashBits == 6
HashModulus == 2 ^ HashBits

RECURSIVE std_hash_from(_, _)
std_hash_from(h, data) ==
    IF data = <<>> THEN h
    ELSE std_hash_from((h * 7 + Head(data) + 3) % HashModulus, Tail(data))

\* chia.util.hash.std_hash: one digest of the concatenated bytes
std_hash(data) == std_hash_from(1, data)

\* proof_of_space.py:125-126
calculate_plot_filter_input(plot_id, challenge_hash, signage_point) ==
    std_hash(<<plot_id, challenge_hash, signage_point>>)

\* proof_of_space.py:129-130
calculate_pos_challenge(plot_id, challenge_hash, signage_point) ==
    std_hash(<<calculate_plot_filter_input(plot_id, challenge_hash, signage_point)>>)

\* proof_of_space.py:133-137
calculate_plot_id_pk(pool_public_key, plot_public_key) ==
    std_hash(<<pool_public_key, plot_public_key>>)

\* proof_of_space.py:140-144
calculate_plot_id_ph(pool_contract_puzzle_hash, plot_public_key) ==
    std_hash(<<pool_contract_puzzle_hash, plot_public_key>>)

\* what a call hands back: a value, None after logging an error, or an
\* exception
Returned(value) == [outcome |-> "return", value |-> value, log |-> None]
RejectedWith(message) == [outcome |-> "return", value |-> None, log |-> Some(message)]
Raised(exception) == [outcome |-> "raise", value |-> None, log |-> Some(exception)]

\* proof_of_space.py:17-22; the two assertions raise AssertionError
get_plot_id(pos) ==
    IF ~(pos.pool_public_key = None \/ pos.pool_contract_puzzle_hash = None)
    THEN Raised("AssertionError")
    ELSE IF pos.pool_public_key = None
    THEN IF pos.pool_contract_puzzle_hash = None
         THEN Raised("AssertionError")
         ELSE Returned(calculate_plot_id_ph(Val(pos.pool_contract_puzzle_hash),
                                            pos.plot_public_key))
    ELSE Returned(calculate_plot_id_pk(Val(pos.pool_public_key), pos.plot_public_key))

\* ProofOfSpace.size_v1() and size_v2(): the size of a plot of that
\* version, None for a plot of another version
size_v1(pos) == IF pos.version = 1 THEN Some(pos.size) ELSE None
size_v2(pos) == IF pos.version = 2 THEN Some(pos.size) ELSE None

\* chiapos Verifier().validate_proof: the quality string of a proof that
\* is valid for the plot id, size and challenge, empty otherwise
validate_proof(plot_id, size, challenge, proof) ==
    IF proof = "valid" THEN Some(std_hash(<<plot_id, size, challenge>>)) ELSE None

\* proof_of_space.py:25-26
validate_proof_v2(plot_id, size, challenge, proof) == Raised("NotImplementedError")

\* proof_of_space.py:76-91
get_quality_string(pos, plot_id) ==
    IF size_v1(pos) # None
    THEN Returned(validate_proof(plot_id, Val(size_v1(pos)), pos.challenge, pos.proof))
    ELSE IF size_v2(pos) # None
    THEN validate_proof_v2(plot_id, Val(size_v2(pos)), pos.challenge, pos.proof)
    ELSE RejectedWith("Unknown plot version")

\* BitArray(value)[:prefix_bits].uint: the leading prefix_bits bits
LeadingBits(value, prefix_bits) ==
    IF prefix_bits >= HashBits THEN value
    ELSE value \div (2 ^ (HashBits - prefix_bits))

\* proof_of_space.py:94-108
passes_plot_filter(prefix_bits, plot_id, challenge_hash, signage_point) ==
    IF prefix_bits = 0 THEN TRUE
    ELSE LeadingBits(calculate_plot_filter_input(plot_id, challenge_hash, signage_point),
                     prefix_bits) = 0

Max(a, b) == IF a >= b THEN a ELSE b

calculate_prefix_bits_after(constants, height) ==
    LET prefix_bits == constants.NUMBER_ZERO_BITS_PLOT_FILTER_V1 IN
    Max(0, IF height > constants.PLOT_FILTER_32_HEIGHT THEN prefix_bits - 4
           ELSE IF height > constants.PLOT_FILTER_64_HEIGHT THEN prefix_bits - 3
           ELSE IF height > constants.PLOT_FILTER_128_HEIGHT THEN prefix_bits - 2
           ELSE IF height > constants.HARD_FORK_HEIGHT THEN prefix_bits - 1
           ELSE prefix_bits)

\* the reduction without the lower limit of 0
calculate_prefix_bits_unclamped(constants, height) ==
    LET prefix_bits == constants.NUMBER_ZERO_BITS_PLOT_FILTER_V1 IN
    IF height >= constants.PLOT_FILTER_32_HEIGHT THEN prefix_bits - 4
    ELSE IF height >= constants.PLOT_FILTER_64_HEIGHT THEN prefix_bits - 3
    ELSE IF height >= constants.PLOT_FILTER_128_HEIGHT THEN prefix_bits - 2
    ELSE IF height >= constants.HARD_FORK_HEIGHT THEN prefix_bits - 1
    ELSE prefix_bits

\* proof_of_space.py:111-122
calculate_prefix_bits(constants, height) ==
    LET prefix_bits == constants.NUMBER_ZERO_BITS_PLOT_FILTER_V1 IN
    Max(0, IF height >= constants.PLOT_FILTER_32_HEIGHT THEN prefix_bits - 4
           ELSE IF height >= constants.PLOT_FILTER_64_HEIGHT THEN prefix_bits - 3
           ELSE IF height >= constants.PLOT_FILTER_128_HEIGHT THEN prefix_bits - 2
           ELSE IF height >= constants.HARD_FORK_HEIGHT THEN prefix_bits - 1
           ELSE prefix_bits)

\* proof_of_space.py:38 and 41
GotNeither(pos) == pos.pool_public_key = None /\ pos.pool_contract_puzzle_hash = None
GotBothNever(pos) == FALSE
GotBoth(pos) == pos.pool_public_key # None /\ pos.pool_contract_puzzle_hash # None

\* proof_of_space.py:66
PosChallengeMismatchNever(new_challenge, pos) == FALSE
PosChallengeMismatch(new_challenge, pos) == new_challenge # pos.challenge

\* proof_of_space.py:63-73: from get_plot_id on, with the prefix bits chosen
VerifyWithPrefixBits(pos, original_challenge_hash, signage_point, prefix_bits) ==
    LET plot_id == get_plot_id(pos) IN
    IF plot_id.outcome = "raise" THEN plot_id
    ELSE LET new_challenge == calculate_pos_challenge(plot_id.value,
                                  original_challenge_hash, signage_point) IN
         IF PosChallengeMismatch(new_challenge, pos)
         THEN RejectedWith("Calculated pos challenge doesn't match the provided one")
         ELSE IF ~passes_plot_filter(prefix_bits, plot_id.value,
                                     original_challenge_hash, signage_point)
         THEN RejectedWith("Did not pass the plot filter")
         ELSE get_quality_string(pos, plot_id.value)

V2PlotSizes == {28, 30, 32}

\* proof_of_space.py:29-73
verify_and_get_quality_string(pos, constants, original_challenge_hash, signage_point, height) ==
    IF GotNeither(pos)
    THEN RejectedWith("Expected pool public key or pool contract puzzle hash but got neither")
    ELSE IF GotBoth(pos)
    THEN RejectedWith("Expected pool public key or pool contract puzzle hash but got both")
    ELSE IF size_v1(pos) # None
    THEN IF Val(size_v1(pos)) < constants.MIN_PLOT_SIZE
         THEN RejectedWith("Plot size is lower than the minimum")
         ELSE IF Val(size_v1(pos)) > constants.MAX_PLOT_SIZE
         THEN RejectedWith("Plot size is higher than the maximum")
         ELSE VerifyWithPrefixBits(pos, original_challenge_hash, signage_point,
                                   calculate_prefix_bits(constants, height))
    ELSE IF size_v2(pos) # None
    THEN IF Val(size_v2(pos)) \notin V2PlotSizes
         THEN RejectedWith("Invalid v2 plot size")
         ELSE VerifyWithPrefixBits(pos, original_challenge_hash, signage_point,
                                   constants.NUMBER_ZERO_BITS_PLOT_FILTER_V2)
    ELSE RejectedWith("Unknown plot version")

\* ---- the arguments tried
MaxHeight == 5
Heights == 0..MaxHeight

\* <<HARD_FORK_HEIGHT, PLOT_FILTER_128_HEIGHT, PLOT_FILTER_64_HEIGHT,
\* PLOT_FILTER_32_HEIGHT>>: ordered, ordered with equal heights, starting
\* at height 0, and not ordered
FilterHeights ==
    { <<1, 2, 3, 4>>, <<1, 1, 3, 3>>, <<2, 2, 2, 2>>, <<0, 1, 2, 4>>,
      <<4, 3, 2, 1>>, <<1, 3, 2, 4>> }

ConsensusConstants ==
    { [ MIN_PLOT_SIZE |-> 32, MAX_PLOT_SIZE |-> 50,
        NUMBER_ZERO_BITS_PLOT_FILTER_V1 |-> n,
        NUMBER_ZERO_BITS_PLOT_FILTER_V2 |-> 1,
        HARD_FORK_HEIGHT |-> h[1], PLOT_FILTER_128_HEIGHT |-> h[2],
        PLOT_FILTER_64_HEIGHT |-> h[3], PLOT_FILTER_32_HEIGHT |-> h[4] ] :
      n \in {0, 2, 5}, h \in FilterHeights }

\* version and size of the plots tried: v1 below, at and above the size
\* limits, v2 of a valid and of an invalid size, and an unknown version
PlotSizes == { <<1, 31>>, <<1, 32>>, <<1, 51>>, <<2, 28>>, <<2, 29>>, <<0, 32>> }

\* the proofs tried for a challenge and signage point: any combination of
\* pool key and contract puzzle hash, with the challenge of the proof's
\* plot id or another one
ProofsOfSpace(original_challenge_hash, signage_point) ==
    { [ pool_public_key |-> pk, pool_contract_puzzle_hash |-> ph,
        plot_public_key |-> plot_pk, version |-> vs[1], size |-> vs[2],
        challenge |->
            (calculate_pos_challenge(
                 IF pk = None /\ ph # None THEN calculate_plot_id_ph(Val(ph), plot_pk)
                 ELSE IF pk # None THEN calculate_plot_id_pk(Val(pk), plot_pk)
                 ELSE 0,
                 original_challenge_hash, signage_point) + off) % HashModulus,
        proof |-> proof ] :
      pk \in {None, Some(11)}, ph \in {None, Some(12)}, plot_pk \in {21, 22},
      vs \in PlotSizes, off \in {0, 1}, proof \in {"valid", "invalid"} }

OriginalChallengeHashes == {41, 42}
SignagePointHashes == {51}

VerifyAndGetQualityString ==
    /\ pos_args # None
    /\ pos_result = None
    /\ LET a == Val(pos_args) IN
       pos_result' = Some(verify_and_get_quality_string(a.pos, a.constants,
                              a.original_challenge_hash, a.signage_point, a.height))
    /\ UNCHANGED <<pos_args, prefix_bits_result>>

CalculatePrefixBits ==
    /\ pos_args # None
    /\ prefix_bits_result = None
    /\ LET a == Val(pos_args) IN
       prefix_bits_result' = Some(calculate_prefix_bits(a.constants, a.height))
    /\ UNCHANGED <<pos_args, pos_result>>

(***************************************************************************)
(* check_missing_signage_points, farmer.py:786-812.  The result is None or *)
(* (timestamp, count).  The float arithmetic of lines 802-811 is done here *)
(* on the fractions themselves: expected_sp_interval_seconds is            *)
(* SUB_SLOT_TIME_TARGET / NUM_SPS_SUB_SLOT, the allowance 1.6 is 16 / 10.  *)
(***************************************************************************)
\* farmer.py:797
missing_sps_between(new_signage_point, prev_sp) ==
    new_signage_point.signage_point_index - prev_sp.signage_point_index
missing_sps(new_signage_point, prev_sp) ==
    new_signage_point.signage_point_index - prev_sp.signage_point_index - 1

\* farmer.py:806-808: actual < expected * allowance
BelowOrAtAllowance(actual_sp_interval_seconds, constants) ==
    actual_sp_interval_seconds * constants.NUM_SPS_SUB_SLOT * 10
        <= constants.SUB_SLOT_TIME_TARGET * 16
BelowAllowance(actual_sp_interval_seconds, constants) ==
    actual_sp_interval_seconds * constants.NUM_SPS_SUB_SLOT * 10
        < constants.SUB_SLOT_TIME_TARGET * 16

\* farmer.py:811: floor(actual / expected)
skipped_sps(actual_sp_interval_seconds, constants) ==
    (actual_sp_interval_seconds * constants.NUM_SPS_SUB_SLOT)
        \div constants.SUB_SLOT_TIME_TARGET

\* the value returned, farmer.py:796-812
MissingSignagePoints(constants, prev, timestamp, new_signage_point) ==
    LET prev_time == prev[1]
        prev_sp == prev[2]
        actual_sp_interval_seconds == timestamp - prev_time
    IN  IF prev_sp.challenge_hash = new_signage_point.challenge_hash
        THEN IF missing_sps(new_signage_point, prev_sp) > 0
             THEN Some(<<timestamp, missing_sps(new_signage_point, prev_sp)>>)
             ELSE None
        ELSE IF actual_sp_interval_seconds <= 0 THEN None
        ELSE IF BelowAllowance(actual_sp_interval_seconds, constants) THEN None
        ELSE Some(<<timestamp, skipped_sps(actual_sp_interval_seconds, constants)>>)

\* prev_signage_point kept when a later call reports nothing
check_missing_signage_points_keeping_prev(timestamp, new_signage_point) ==
    LET result == IF prev_signage_point = None THEN None
                  ELSE MissingSignagePoints(Val(sp_constants), Val(prev_signage_point),
                                            timestamp, new_signage_point)
    IN  /\ prev_signage_point' =
              IF prev_signage_point # None /\ result = None
              THEN prev_signage_point
              ELSE Some(<<timestamp, new_signage_point>>)
        /\ missing_result' =
              Some([ timestamp |-> timestamp, new_signage_point |-> new_signage_point,
                     prev |-> prev_signage_point, result |-> result ])
        /\ UNCHANGED sp_constants

check_missing_signage_points(timestamp, new_signage_point) ==
    /\ prev_signage_point' = Some(<<timestamp, new_signage_point>>)
    /\ missing_result' =
          Some([ timestamp |-> timestamp, new_signage_point |-> new_signage_point,
                 prev |-> prev_signage_point,
                 result |-> IF prev_signage_point = None THEN None
                            ELSE MissingSignagePoints(Val(sp_constants),
                                     Val(prev_signage_point), timestamp,
                                     new_signage_point) ])
    /\ UNCHANGED sp_constants

\* <<SUB_SLOT_TIME_TARGET, NUM_SPS_SUB_SLOT>>: expected intervals of 9.375
\* seconds (mainnet), 5 seconds and 0.75 seconds
SignagePointConstants ==
    { [SUB_SLOT_TIME_TARGET |-> c[1], NUM_SPS_SUB_SLOT |-> c[2]] :
        c \in { <<600, 64>>, <<10, 2>>, <<3, 4>> } }

\* arrival times whose differences lie below, at and above 1.6 and 2
\* expected intervals
ArrivalTimes == {0, 1, 2, 7, 8, 10, 15, 19, 20}

ArrivingSignagePoints ==
    { [challenge_hash |-> c, sp_hash |-> "sp_1", signage_point_index |-> i] :
        c \in {"c_1", "c_2"}, i \in {3, 4, 7} }

(***************************************************************************)
(* The farmer's life cycle, farmer.py:182-217 and 282-313, and the loops   *)
(* of its two periodic tasks, farmer.py:814-864.  A task is "none" before  *)
(* it is created, "running" between two of its awaits, "returned" after    *)
(* its function returned and "failed" after an exception left it.          *)
(***************************************************************************)
Harvesters == {"harvester_1", "harvester_2"}
Peers == Harvesters \cup {"full_node_1"}

\* peer.connection_type is NodeType.HARVESTER, farmer.py:311
IsHarvester(peer) == peer \in Harvesters

\* manage() is entered, farmer.py:183-204: start_task is created
ManageEnter ==
    /\ manage_pc = "none"
    /\ manage_pc' = "entered"
    /\ start_task' = "running"
    /\ UNCHANGED <<shut_down, started, connections, connected, handshake_task,
                   handshakes, update_pool_state_task, cache_clear_task, task_log>>

\* what setup_keys does: True, False (no keys yet), or an exception of
\* load_config or of decoding the configuration, farmer.py:236-277
SetupKeysOutcomes == {"True", "False", "raise"}

\* start_task at its loop check, farmer.py:187-188: it returns after a
\* shutdown, and otherwise calls setup_keys, which suspends it while the
\* keychain is asked for the keys (239)
StartTaskLoopCheck ==
    /\ start_task = "running"
    /\ start_task' = IF shut_down THEN "returned" ELSE "setup_keys"
    /\ UNCHANGED <<shut_down, started, manage_pc, connections, connected,
                   handshake_task, handshakes, update_pool_state_task,
                   cache_clear_task, task_log>>

\* setup_keys returns to a start_task that gives up when there are no keys
StartTaskIterationGivingUp(setup_keys) ==
    /\ start_task = "setup_keys"
    /\ task_log' = Put(task_log, "start_task", setup_keys)
    /\ IF setup_keys = "True"
       THEN /\ update_pool_state_task' = "running"
            /\ cache_clear_task' = "running"
            /\ started' = TRUE
            /\ start_task' = "returned"
       ELSE IF setup_keys = "raise"
       THEN /\ start_task' = "failed"
            /\ UNCHANGED <<started, update_pool_state_task, cache_clear_task>>
       ELSE /\ start_task' = "returned"
            /\ UNCHANGED <<started, update_pool_state_task, cache_clear_task>>
    /\ UNCHANGED <<shut_down, manage_pc, connections, connected, handshake_task,
                   handshakes>>

\* setup_keys returns to start_task, farmer.py:188-194: on True both tasks
\* are created and started is set, with no look at _shut_down; on False the
\* task sleeps a second and is back at its loop check
StartTaskIteration(setup_keys) ==
    /\ start_task = "setup_keys"
    /\ task_log' = Put(task_log, "start_task", setup_keys)
    /\ IF setup_keys = "True"
       THEN /\ update_pool_state_task' = "running"
            /\ cache_clear_task' = "running"
            /\ started' = TRUE
            /\ start_task' = "returned"
       ELSE IF setup_keys = "raise"
       THEN /\ start_task' = "failed"
            /\ UNCHANGED <<started, update_pool_state_task, cache_clear_task>>
       ELSE /\ start_task' = "running"
            /\ UNCHANGED <<started, update_pool_state_task, cache_clear_task>>
    /\ UNCHANGED <<shut_down, manage_pc, connections, connected, handshake_task,
                   handshakes>>

\* what manage() does next in its finally block, farmer.py:208-217, once
\* the tasks before `task` are dealt with: a task that exists is awaited
NextInFinally(task) ==
    IF task = "cache_clear_task" /\ cache_clear_task # "none"
    THEN "await_cache_clear_task"
    ELSE IF update_pool_state_task # "none"
    THEN "await_update_pool_state_task"
    ELSE "closing"

\* the body of manage() is left, farmer.py:205-208
ManageExit ==
    /\ manage_pc = "entered"
    /\ manage_pc' = NextInFinally("cache_clear_task")
    /\ shut_down' = TRUE
    /\ UNCHANGED <<started, start_task, connections, connected, handshake_task,
                   handshakes, update_pool_state_task, cache_clear_task, task_log>>

\* manage() going on without waiting for the task it awaits
ManageAwaitedWithoutWaiting ==
    /\ \/ /\ manage_pc = "await_cache_clear_task"
          /\ manage_pc' = IF cache_clear_task = "failed" THEN "raised"
                          ELSE NextInFinally("update_pool_state_task")
       \/ /\ manage_pc = "await_update_pool_state_task"
          /\ manage_pc' = IF update_pool_state_task = "failed" THEN "raised"
                          ELSE "closing"
    /\ UNCHANGED <<shut_down, started, start_task, connections, connected,
                   handshake_task, handshakes, update_pool_state_task,
                   cache_clear_task, task_log>>

\* farmer.py:208-211: the awaited task is done; awaiting a failed task
\* raises its exception again, which leaves manage() with started as it is
ManageAwaited ==
    /\ \/ /\ manage_pc = "await_cache_clear_task"
          /\ cache_clear_task # "running"
          /\ manage_pc' = IF cache_clear_task = "failed" THEN "raised"
                          ELSE NextInFinally("update_pool_state_task")
       \/ /\ manage_pc = "await_update_pool_state_task"
          /\ update_pool_state_task # "running"
          /\ manage_pc' = IF update_pool_state_task = "failed" THEN "raised"
                          ELSE "closing"
    /\ UNCHANGED <<shut_down, started, start_task, connections, connected,
                   handshake_task, handshakes, update_pool_state_task,
                   cache_clear_task, task_log>>

\* farmer.py:212-217: the keychain proxy is closed and started is cleared
ManageClosed ==
    /\ manage_pc = "closing"
    /\ manage_pc' = "closed"
    /\ started' = FALSE
    /\ UNCHANGED <<shut_down, start_task, connections, connected, handshake_task,
                   handshakes, update_pool_state_task, cache_clear_task, task_log>>

\* farmer.py:289-300: what a handshake task does when it runs
HandshakeStepWithoutShutdownCheck(peer) ==
    IF ~started /\ ~shut_down /\ peer \in connections THEN "sleep"
    ELSE IF peer \notin connections THEN "disconnected"
    ELSE "send"
HandshakeStep(peer) ==
    IF ~started /\ ~shut_down /\ peer \in connections THEN "sleep"
    ELSE IF shut_down THEN "shutdown"
    ELSE IF peer \notin connections THEN "disconnected"
    ELSE "send"

\* on_connect, farmer.py:282-313, called by the server once for a new
\* connection
on_connect(peer) ==
    /\ manage_pc # "none"
    /\ peer \notin connected
    /\ connected' = connected \cup {peer}
    /\ connections' = connections \cup {peer}
    /\ IF IsHarvester(peer)
       THEN handshake_task' = Put(handshake_task, peer, "running")
       ELSE UNCHANGED handshake_task
    /\ handshakes' = Put(handshakes, peer, 0)
    /\ UNCHANGED <<shut_down, started, manage_pc, start_task,
                   update_pool_state_task, cache_clear_task, task_log>>

\* the connection is closed and leaves server.get_connections()
Disconnect(peer) ==
    /\ peer \in connections
    /\ connections' = connections \ {peer}
    /\ UNCHANGED <<shut_down, started, manage_pc, start_task, connected,
                   handshake_task, handshakes, update_pool_state_task,
                   cache_clear_task, task_log>>

\* handshake_task, farmer.py:285-309: from one await to the next
HandshakeTask(peer) ==
    /\ peer \in DOMAIN handshake_task
    /\ handshake_task[peer] = "running"
    /\ LET step == HandshakeStep(peer) IN
       /\ handshake_task' =
             IF step = "sleep" THEN handshake_task
             ELSE [handshake_task EXCEPT ![peer] = step]
       /\ handshakes' =
             IF step = "send" THEN [handshakes EXCEPT ![peer] = @ + 1]
             ELSE handshakes
    /\ UNCHANGED <<shut_down, started, manage_pc, start_task, connections,
                   connected, update_pool_state_task, cache_clear_task, task_log>>

\* what can happen in an iteration of _periodically_update_pool_state_task:
\* config_path.stat() fails (819), the keychain fails while the keys are
\* refreshed (822), load_config or load_pool_config fails in
\* update_pool_state (527-529), or nothing fails
PoolIterationOutcomes == {"ok", "stat_failed", "keychain_failed", "load_config_failed"}

\* one iteration of _periodically_update_pool_state_task, farmer.py:817-830;
\* no statement of the loop is in a try block, so an exception leaves the task
PoolStateTaskIteration(outcome) ==
    /\ update_pool_state_task = "running"
    /\ IF shut_down
       THEN /\ update_pool_state_task' = "returned"
            /\ UNCHANGED task_log
       ELSE IF outcome = "ok"
       THEN /\ task_log' = Put(task_log, "update_pool_state_task", outcome)
            /\ UNCHANGED update_pool_state_task
       ELSE /\ task_log' = Put(task_log, "update_pool_state_task", outcome)
            /\ update_pool_state_task' = "failed"
    /\ UNCHANGED <<shut_down, started, manage_pc, start_task, connections,
                   connected, handshake_task, handshakes, cache_clear_task>>

\* an iteration of the sweeper either runs through or fails inside its try
\* block (836-862)
CacheClearIterationOutcomes == {"ok", "sweep_failed"}

\* one iteration of _periodically_clear_cache_and_refresh_task,
\* farmer.py:835-864: an exception is logged and the loop goes on
CacheClearTaskIteration(outcome) ==
    /\ cache_clear_task = "running"
    /\ IF shut_down
       THEN /\ cache_clear_task' = "returned"
            /\ UNCHANGED task_log
       ELSE /\ task_log' = Put(task_log, "cache_clear_task", outcome)
            /\ UNCHANGED cache_clear_task
    /\ UNCHANGED <<shut_down, started, manage_pc, start_task, connections,
                   connected, handshake_task, handshakes, update_pool_state_task>>

(***************************************************************************)
(* Harvester connections and their plot-sync receivers, farmer.py:282-283, *)
(* 311-320 and 332-337.  The server calls on_connect once for a new        *)
(* connection and on_disconnect once for a connection it closed; a peer    *)
(* that connects again arrives as another connection with the same node    *)
(* id, and the server may hand it to on_connect before or after it         *)
(* delivers the disconnect of the old one.                                 *)
(***************************************************************************)
\* two connections of one harvester, one of another harvester, and one of
\* a full node
PeerConnections ==
    { [id |-> "c_1", peer_node_id |-> "node_1", connection_type |-> "HARVESTER"],
      [id |-> "c_2", peer_node_id |-> "node_1", connection_type |-> "HARVESTER"],
      [id |-> "c_3", peer_node_id |-> "node_2", connection_type |-> "HARVESTER"],
      [id |-> "c_4", peer_node_id |-> "node_3", connection_type |-> "FULL_NODE"] }

\* state_changed(change, data), farmer.py:318-320
StateChange(change, data) == [change |-> change, data |-> data]

\* on_connect without its handshake task, farmer.py:282-283 and 311-312
OnConnectReceiver(connection) ==
    /\ connection.id \notin DOMAIN delivered
    /\ delivered' = Put(delivered, connection.id, "on_connect")
    /\ state_changes' = <<StateChange("add_connection", None)>>
    /\ plot_sync_receivers' =
          IF connection.connection_type = "HARVESTER"
          THEN Put(plot_sync_receivers, connection.peer_node_id, connection.id)
          ELSE plot_sync_receivers
    /\ peer_call' = Some([handler |-> "on_connect", connection |-> connection,
                          raised |-> None])

\* on_disconnect that leaves the receiver of a harvester where it is
on_disconnect_keeping_receiver(connection) ==
    /\ connection.id \in DOMAIN delivered
    /\ delivered[connection.id] = "on_connect"
    /\ delivered' = Put(delivered, connection.id, "on_disconnect")
    /\ UNCHANGED plot_sync_receivers
    /\ state_changes' =
          IF connection.connection_type = "HARVESTER"
          THEN << StateChange("close_connection", None),
                  StateChange("harvester_removed", Some(connection.peer_node_id)) >>
          ELSE <<StateChange("close_connection", None)>>
    /\ peer_call' = Some([handler |-> "on_disconnect", connection |-> connection,
                          raised |-> None])

\* farmer.py:332-337; del raises KeyError for a node id that has no receiver
on_disconnect(connection) ==
    /\ connection.id \in DOMAIN delivered
    /\ delivered[connection.id] = "on_connect"
    /\ delivered' = Put(delivered, connection.id, "on_disconnect")
    /\ IF connection.connection_type # "HARVESTER"
       THEN /\ UNCHANGED plot_sync_receivers
            /\ state_changes' = <<StateChange("close_connection", None)>>
            /\ peer_call' = Some([handler |-> "on_disconnect",
                                  connection |-> connection, raised |-> None])
       ELSE IF connection.peer_node_id \notin DOMAIN plot_sync_receivers
       THEN /\ UNCHANGED plot_sync_receivers
            /\ state_changes' = <<StateChange("close_connection", None)>>
            /\ peer_call' = Some([handler |-> "on_disconnect",
                                  connection |-> connection,
                                  raised |-> Some("KeyError")])
       ELSE /\ plot_sync_receivers' =
                  PopAll(plot_sync_receivers, {connection.peer_node_id})
            /\ state_changes' =
                  << StateChange("close_connection", None),
                     StateChange("harvester_removed", Some(connection.peer_node_id)) >>
            /\ peer_call' = Some([handler |-> "on_disconnect",
                                  connection |-> connection, raised |-> None])

(***************************************************************************)
(* The loop of _periodically_update_pool_state_task, farmer.py:814-830,    *)
(* one iteration at a time: from the loop check after a wake-up to the     *)
(* next sleep of one second.  Failures inside an iteration and the         *)
(* shutdown are those of PoolStateTaskIteration.                           *)
(***************************************************************************)
\* farmer.py:826
UpdatePoolStateInterval == 60

\* the writes of config.yaml tried
MaxMtime == 3

\* the loop calling update_pool_state a wake-up later
PoolUpdaterIterationLate ==
    LET changed == config_mtime > last_config_access_time
        due == pool_time_slept > UpdatePoolStateInterval + 1
    IN  /\ iteration_log' =
              IF changed THEN <<"get_all_private_keys", "update_pool_state">>
              ELSE IF due THEN <<"update_pool_state">>
              ELSE <<>>
        /\ last_config_access_time' =
              IF changed THEN config_mtime ELSE last_config_access_time
        /\ pool_time_slept' = (IF changed \/ due THEN 0 ELSE pool_time_slept) + 1
        /\ idle_wakeups' = IF changed \/ due THEN 0 ELSE idle_wakeups + 1
        /\ UNCHANGED config_mtime

\* farmer.py:817-830 with _shut_down false
PoolUpdaterIteration ==
    LET changed == config_mtime > last_config_access_time
        due == pool_time_slept > UpdatePoolStateInterval
    IN  /\ iteration_log' =
              IF changed THEN <<"get_all_private_keys", "update_pool_state">>
              ELSE IF due THEN <<"update_pool_state">>
              ELSE <<>>
        /\ last_config_access_time' =
              IF changed THEN config_mtime ELSE last_config_access_time
        /\ pool_time_slept' = (IF changed \/ due THEN 0 ELSE pool_time_slept) + 1
        /\ idle_wakeups' = IF changed \/ due THEN 0 ELSE idle_wakeups + 1
        /\ UNCHANGED config_mtime

\* config.yaml is written: its mtime gets newer
ConfigWritten ==
    /\ config_mtime < MaxMtime
    /\ config_mtime' = config_mtime + 1
    /\ UNCHANGED <<pool_time_slept, last_config_access_time, idle_wakeups,
                   iteration_log>>

(***************************************************************************)
(* One call of strip_old_entries on a list of at most MaxPairs pairs, in   *)
(* any order of their timestamps; the value of a pair is its position in   *)
(* the list, so that the pairs of a list are told apart.                   *)
(***************************************************************************)
MaxPairs == 3
PairTimestamps == 1..3
RECURSIVE TimestampLists(_)
TimestampLists(n) ==
    IF n = 0 THEN {<<>>}
    ELSE TimestampLists(n - 1)
         \cup {Append(list, t) : list \in {l \in TimestampLists(n - 1) : Len(l) = n - 1},
                                 t \in PairTimestamps}
PairLists ==
    {[i \in DOMAIN list |-> <<list[i], i>>] : list \in TimestampLists(MaxPairs)}
\* before, from a second ahead of the timestamps to half a second past them
Befores == 0..(Float(3) + 1)

StripOldEntries ==
    /\ strip_args # None
    /\ strip_result = None
    /\ strip_result' = Some(strip_old_entries(Val(strip_args).pairs, Val(strip_args).before))
    /\ UNCHANGED strip_args

(***************************************************************************)
(* Specifications.                                                         *)
(***************************************************************************)
vars == <<now, cacheVars, pool_state, statVars, poolVars, moreVars>>

NewSignagePoint == \E sp \in SignagePoints : insert_sp(sp)
NewProofOfSpace ==
    \E sp_hash \in SpHashes, quality \in Qualities, peer_id \in {"h_1"} :
        insert_proof(sp_hash, quality, "plot_" \o quality, peer_id)

\* the farmer after __init__ (farmer.py:137-181) with its cache empty
InitCache ==
    /\ now = 0
    /\ sps = EmptyDict
    /\ proofs_of_space = EmptyDict
    /\ quality_str_to_identifiers = EmptyDict
    /\ number_of_responses = EmptyDict
    /\ cache_add_time = EmptyDict
    /\ time_slept = 0
    /\ refresh_slept = 0
    /\ removed_keys = {}
    /\ sweep_now = None
    /\ refresh_events = FALSE
    /\ pool_state = EmptyDict
    /\ last_call = None
    /\ stat_calls = 0
    /\ stat_time = [l \in StatLists |-> 0]
    /\ monotone = TRUE
    /\ config_pool_list = <<>>
    /\ selected_network = "mainnet"
    /\ all_root_sks = {}
    /\ authentication_keys = EmptyDict
    /\ upd = IdleUpd
    /\ http_log = <<>>
    /\ call_notes = {}
    /\ last_step = None
    /\ succeeded = {}
    /\ quiet_calls = 0
    /\ pool_info_attempts = EmptyDict
    /\ first_pool_info = EmptyDict
    /\ forced_farmer_update = {}
    /\ pos_args = None
    /\ pos_result = None
    /\ prefix_bits_result = None
    /\ sp_constants = None
    /\ prev_signage_point = None
    /\ missing_result = None
    /\ shut_down = FALSE
    /\ started = FALSE
    /\ manage_pc = "none"
    /\ start_task = "none"
    /\ connections = {}
    /\ connected = {}
    /\ handshake_task = EmptyDict
    /\ handshakes = EmptyDict
    /\ update_pool_state_task = "none"
    /\ cache_clear_task = "none"
    /\ task_log = EmptyDict
    /\ strip_args = None
    /\ strip_result = None
    /\ plot_sync_receivers = EmptyDict
    /\ delivered = EmptyDict
    /\ state_changes = <<>>
    /\ peer_call = None
    /\ pool_time_slept = 0
    /\ last_config_access_time = 0
    /\ config_mtime = 1
    /\ idle_wakeups = 0
    /\ iteration_log = <<>>

NextCache ==
    \/ /\ NewSignagePoint
       /\ UNCHANGED <<now, time_slept, refresh_slept, removed_keys, sweep_now,
                      refresh_events, pool_state, statVars, poolVars, moreVars>>
    \/ /\ NewProofOfSpace
       /\ UNCHANGED <<now, time_slept, refresh_slept, removed_keys, sweep_now,
                      refresh_events, pool_state, statVars, poolVars, moreVars>>
    \/ /\ \E slept \in SleepTimes : SweeperIteration(slept)
       /\ UNCHANGED <<pool_state, statVars, poolVars, moreVars>>

SpecCache == InitCache /\ [][NextCache]_vars

\* a pool_state holding one record, with and without a difficulty
InitStats ==
    /\ now = 0
    /\ sps = EmptyDict
    /\ proofs_of_space = EmptyDict
    /\ quality_str_to_identifiers = EmptyDict
    /\ number_of_responses = EmptyDict
    /\ cache_add_time = EmptyDict
    /\ time_slept = 0
    /\ refresh_slept = 0
    /\ removed_keys = {}
    /\ sweep_now = None
    /\ refresh_events = FALSE
    /\ \E d \in {None, Some(1)} :
          pool_state = [p \in {"p2_A"} |->
              [new_pool_state(PoolConfig(p, HttpsA, <<"x">>, "owner_A"))
                  EXCEPT !.current_difficulty = d]]
    /\ last_call = None
    /\ stat_calls = 0
    /\ stat_time = [l \in StatLists |-> 0]
    /\ monotone = TRUE
    /\ config_pool_list = <<>>
    /\ selected_network = "mainnet"
    /\ all_root_sks = {}
    /\ authentication_keys = EmptyDict
    /\ upd = IdleUpd
    /\ http_log = <<>>
    /\ call_notes = {}
    /\ last_step = None
    /\ succeeded = {}
    /\ quiet_calls = 0
    /\ pool_info_attempts = EmptyDict
    /\ first_pool_info = EmptyDict
    /\ forced_farmer_update = {}
    /\ pos_args = None
    /\ pos_result = None
    /\ prefix_bits_result = None
    /\ sp_constants = None
    /\ prev_signage_point = None
    /\ missing_result = None
    /\ shut_down = FALSE
    /\ started = FALSE
    /\ manage_pc = "none"
    /\ start_task = "none"
    /\ connections = {}
    /\ connected = {}
    /\ handshake_task = EmptyDict
    /\ handshakes = EmptyDict
    /\ update_pool_state_task = "none"
    /\ cache_clear_task = "none"
    /\ task_log = EmptyDict
    /\ strip_args = None
    /\ strip_result = None
    /\ plot_sync_receivers = EmptyDict
    /\ delivered = EmptyDict
    /\ state_changes = <<>>
    /\ peer_call = None
    /\ pool_time_slept = 0
    /\ last_config_access_time = 0
    /\ config_mtime = 1
    /\ idle_wakeups = 0
    /\ iteration_log = <<>>

\* the calls tried: every time, count and value on the two lists of the
\* known pool, one call on a name with no counters, one on an unknown pool
StatArguments ==
    ({"p2_A"} \X {"points_found", "pool_errors"} \X StatTimes
        \X ({1} \X StatValues \cup {<<2, None>>}))
    \cup {<<"p2_A", "plot", Float(10), <<1, None>> >>,
          <<"p2_B", "points_found", Float(10), <<1, None>> >>}

IncrementPoolStats ==
    \E a \in StatArguments : StatCall(a[1], a[2], a[3], a[4][1], a[4][2])

NextStats == IncrementPoolStats /\ UNCHANGED <<now, cacheVars, poolVars, moreVars>>

SpecStats == InitStats /\ [][NextStats]_vars

\* the farmer when its periodic tasks start: keys set up from the keychain,
\* no pool seen yet
InitPool ==
    /\ now = 0
    /\ sps = EmptyDict
    /\ proofs_of_space = EmptyDict
    /\ quality_str_to_identifiers = EmptyDict
    /\ number_of_responses = EmptyDict
    /\ cache_add_time = EmptyDict
    /\ time_slept = 0
    /\ refresh_slept = 0
    /\ removed_keys = {}
    /\ sweep_now = None
    /\ refresh_events = FALSE
    /\ pool_state = EmptyDict
    /\ last_call = None
    /\ stat_calls = 0
    /\ stat_time = [l \in StatLists |-> 0]
    /\ monotone = TRUE
    /\ \E configuration \in Configurations :
          /\ selected_network = configuration[1]
          /\ config_pool_list = configuration[2]
    /\ all_root_sks \in Keychains
    /\ authentication_keys = EmptyDict
    /\ upd = IdleUpd
    /\ http_log = <<>>
    /\ call_notes = {}
    /\ last_step = None
    /\ succeeded = {}
    /\ quiet_calls = 0
    /\ pool_info_attempts = EmptyDict
    /\ first_pool_info = EmptyDict
    /\ forced_farmer_update = {}
    /\ pos_args = None
    /\ pos_result = None
    /\ prefix_bits_result = None
    /\ sp_constants = None
    /\ prev_signage_point = None
    /\ missing_result = None
    /\ shut_down = FALSE
    /\ started = FALSE
    /\ manage_pc = "none"
    /\ start_task = "none"
    /\ connections = {}
    /\ connected = {}
    /\ handshake_task = EmptyDict
    /\ handshakes = EmptyDict
    /\ update_pool_state_task = "none"
    /\ cache_clear_task = "none"
    /\ task_log = EmptyDict
    /\ strip_args = None
    /\ strip_result = None
    /\ plot_sync_receivers = EmptyDict
    /\ delivered = EmptyDict
    /\ state_changes = <<>>
    /\ peer_call = None
    /\ pool_time_slept = 0
    /\ last_config_access_time = 0
    /\ config_mtime = 1
    /\ idle_wakeups = 0
    /\ iteration_log = <<>>

NextPool ==
    \/ /\ \E refresh \in BOOLEAN, keychain \in Keychains, time_now \in CallTimes :
             UpdateStart(refresh, keychain, time_now)
       /\ UNCHANGED <<cacheVars, statVars, moreVars>>
    \/ /\ PoolInfoResponse
       /\ UNCHANGED <<cacheVars, statVars, moreVars>>
    \/ /\ GetFarmerResponse
       /\ UNCHANGED <<cacheVars, statVars, moreVars>>
    \/ /\ PostFarmerResponse
       /\ UNCHANGED <<cacheVars, statVars, moreVars>>
    \/ /\ GetFarmerAgainResponse
       /\ UNCHANGED <<cacheVars, statVars, moreVars>>
    \/ /\ PutFarmerResponse
       /\ UNCHANGED <<cacheVars, statVars, moreVars>>
    \/ /\ \E payout \in ConfiguredPayouts :
             set_payout_instructions("launcher_p2_A", payout)
       /\ UNCHANGED <<cacheVars, statVars, moreVars>>

SpecPool == InitPool /\ [][NextPool]_vars

\* one call of verify_and_get_quality_string and of calculate_prefix_bits
\* on arguments drawn from the sets above
InitProof ==
    /\ now = 0
    /\ sps = EmptyDict
    /\ proofs_of_space = EmptyDict
    /\ quality_str_to_identifiers = EmptyDict
    /\ number_of_responses = EmptyDict
    /\ cache_add_time = EmptyDict
    /\ time_slept = 0
    /\ refresh_slept = 0
    /\ removed_keys = {}
    /\ sweep_now = None
    /\ refresh_events = FALSE
    /\ pool_state = EmptyDict
    /\ last_call = None
    /\ stat_calls = 0
    /\ stat_time = [l \in StatLists |-> 0]
    /\ monotone = TRUE
    /\ config_pool_list = <<>>
    /\ selected_network = "mainnet"
    /\ all_root_sks = {}
    /\ authentication_keys = EmptyDict
    /\ upd = IdleUpd
    /\ http_log = <<>>
    /\ call_notes = {}
    /\ last_step = None
    /\ succeeded = {}
    /\ quiet_calls = 0
    /\ pool_info_attempts = EmptyDict
    /\ first_pool_info = EmptyDict
    /\ forced_farmer_update = {}
    /\ \E constants \in ConsensusConstants, height \in Heights,
          original_challenge_hash \in OriginalChallengeHashes,
          signage_point \in SignagePointHashes :
          \E pos \in ProofsOfSpace(original_challenge_hash, signage_point) :
             pos_args = Some([ pos |-> pos, constants |-> constants,
                               original_challenge_hash |-> original_challenge_hash,
                               signage_point |-> signage_point, height |-> height ])
    /\ pos_result = None
    /\ prefix_bits_result = None
    /\ sp_constants = None
    /\ prev_signage_point = None
    /\ missing_result = None
    /\ shut_down = FALSE
    /\ started = FALSE
    /\ manage_pc = "none"
    /\ start_task = "none"
    /\ connections = {}
    /\ connected = {}
    /\ handshake_task = EmptyDict
    /\ handshakes = EmptyDict
    /\ update_pool_state_task = "none"
    /\ cache_clear_task = "none"
    /\ task_log = EmptyDict
    /\ strip_args = None
    /\ strip_result = None
    /\ plot_sync_receivers = EmptyDict
    /\ delivered = EmptyDict
    /\ state_changes = <<>>
    /\ peer_call = None
    /\ pool_time_slept = 0
    /\ last_config_access_time = 0
    /\ config_mtime = 1
    /\ idle_wakeups = 0
    /\ iteration_log = <<>>

NextProof ==
    \/ /\ VerifyAndGetQualityString
       /\ UNCHANGED <<now, cacheVars, pool_state, statVars, poolVars, signageVars, taskVars,
                    stripVars, laterVars>>
    \/ /\ CalculatePrefixBits
       /\ UNCHANGED <<now, cacheVars, pool_state, statVars, poolVars, signageVars, taskVars,
                    stripVars, laterVars>>

SpecProof == InitProof /\ [][NextProof]_vars

\* the farmer before its first signage point, with the constants of a network
InitSignage ==
    /\ now = 0
    /\ sps = EmptyDict
    /\ proofs_of_space = EmptyDict
    /\ quality_str_to_identifiers = EmptyDict
    /\ number_of_responses = EmptyDict
    /\ cache_add_time = EmptyDict
    /\ time_slept = 0
    /\ refresh_slept = 0
    /\ removed_keys = {}
    /\ sweep_now = None
    /\ refresh_events = FALSE
    /\ pool_state = EmptyDict
    /\ last_call = None
    /\ stat_calls = 0
    /\ stat_time = [l \in StatLists |-> 0]
    /\ monotone = TRUE
    /\ config_pool_list = <<>>
    /\ selected_network = "mainnet"
    /\ all_root_sks = {}
    /\ authentication_keys = EmptyDict
    /\ upd = IdleUpd
    /\ http_log = <<>>
    /\ call_notes = {}
    /\ last_step = None
    /\ succeeded = {}
    /\ quiet_calls = 0
    /\ pool_info_attempts = EmptyDict
    /\ first_pool_info = EmptyDict
    /\ forced_farmer_update = {}
    /\ pos_args = None
    /\ pos_result = None
    /\ prefix_bits_result = None
    /\ \E constants \in SignagePointConstants : sp_constants = Some(constants)
    /\ prev_signage_point = None
    /\ missing_result = None
    /\ shut_down = FALSE
    /\ started = FALSE
    /\ manage_pc = "none"
    /\ start_task = "none"
    /\ connections = {}
    /\ connected = {}
    /\ handshake_task = EmptyDict
    /\ handshakes = EmptyDict
    /\ update_pool_state_task = "none"
    /\ cache_clear_task = "none"
    /\ task_log = EmptyDict
    /\ strip_args = None
    /\ strip_result = None
    /\ plot_sync_receivers = EmptyDict
    /\ delivered = EmptyDict
    /\ state_changes = <<>>
    /\ peer_call = None
    /\ pool_time_slept = 0
    /\ last_config_access_time = 0
    /\ config_mtime = 1
    /\ idle_wakeups = 0
    /\ iteration_log = <<>>

NextSignage ==
    /\ \E timestamp \in ArrivalTimes, new_signage_point \in ArrivingSignagePoints :
          check_missing_signage_points(timestamp, new_signage_point)
    /\ UNCHANGED <<now, cacheVars, pool_state, statVars, poolVars, proofVars, taskVars,
                    stripVars, laterVars>>

SpecSignage == InitSignage /\ [][NextSignage]_vars

\* the farmer after __init__ (farmer.py:137-181), before manage() is entered
InitTasks ==
    /\ now = 0
    /\ sps = EmptyDict
    /\ proofs_of_space = EmptyDict
    /\ quality_str_to_identifiers = EmptyDict
    /\ number_of_responses = EmptyDict
    /\ cache_add_time = EmptyDict
    /\ time_slept = 0
    /\ refresh_slept = 0
    /\ removed_keys = {}
    /\ sweep_now = None
    /\ refresh_events = FALSE
    /\ pool_state = EmptyDict
    /\ last_call = None
    /\ stat_calls = 0
    /\ stat_time = [l \in StatLists |-> 0]
    /\ monotone = TRUE
    /\ config_pool_list = <<>>
    /\ selected_network = "mainnet"
    /\ all_root_sks = {}
    /\ authentication_keys = EmptyDict
    /\ upd = IdleUpd
    /\ http_log = <<>>
    /\ call_notes = {}
    /\ last_step = None
    /\ succeeded = {}
    /\ quiet_calls = 0
    /\ pool_info_attempts = EmptyDict
    /\ first_pool_info = EmptyDict
    /\ forced_farmer_update = {}
    /\ pos_args = None
    /\ pos_result = None
    /\ prefix_bits_result = None
    /\ sp_constants = None
    /\ prev_signage_point = None
    /\ missing_result = None
    /\ shut_down = FALSE
    /\ started = FALSE
    /\ manage_pc = "none"
    /\ start_task = "none"
    /\ connections = {}
    /\ connected = {}
    /\ handshake_task = EmptyDict
    /\ handshakes = EmptyDict
    /\ update_pool_state_task = "none"
    /\ cache_clear_task = "none"
    /\ task_log = EmptyDict
    /\ strip_args = None
    /\ strip_result = None
    /\ plot_sync_receivers = EmptyDict
    /\ delivered = EmptyDict
    /\ state_changes = <<>>
    /\ peer_call = None
    /\ pool_time_slept = 0
    /\ last_config_access_time = 0
    /\ config_mtime = 1
    /\ idle_wakeups = 0
    /\ iteration_log = <<>>

NextTasks ==
    \/ /\ ManageEnter
       /\ UNCHANGED <<now, cacheVars, pool_state, statVars, poolVars, proofVars, signageVars,
                    stripVars, laterVars>>
    \/ /\ StartTaskLoopCheck
       /\ UNCHANGED <<now, cacheVars, pool_state, statVars, poolVars, proofVars, signageVars,
                    stripVars, laterVars>>
    \/ /\ \E setup_keys \in SetupKeysOutcomes : StartTaskIteration(setup_keys)
       /\ UNCHANGED <<now, cacheVars, pool_state, statVars, poolVars, proofVars, signageVars,
                    stripVars, laterVars>>
    \/ /\ ManageExit
       /\ UNCHANGED <<now, cacheVars, pool_state, statVars, poolVars, proofVars, signageVars,
                    stripVars, laterVars>>
    \/ /\ ManageAwaited
       /\ UNCHANGED <<now, cacheVars, pool_state, statVars, poolVars, proofVars, signageVars,
                    stripVars, laterVars>>
    \/ /\ ManageClosed
       /\ UNCHANGED <<now, cacheVars, pool_state, statVars, poolVars, proofVars, signageVars,
                    stripVars, laterVars>>
    \/ /\ \E peer \in Peers : on_connect(peer)
       /\ UNCHANGED <<now, cacheVars, pool_state, statVars, poolVars, proofVars, signageVars,
                    stripVars, laterVars>>
    \/ /\ \E peer \in Peers : Disconnect(peer)
       /\ UNCHANGED <<now, cacheVars, pool_state, statVars, poolVars, proofVars, signageVars,
                    stripVars, laterVars>>
    \/ /\ \E peer \in Peers : HandshakeTask(peer)
       /\ UNCHANGED <<now, cacheVars, pool_state, statVars, poolVars, proofVars, signageVars,
                    stripVars, laterVars>>
    \/ /\ \E outcome \in PoolIterationOutcomes : PoolStateTaskIteration(outcome)
       /\ UNCHANGED <<now, cacheVars, pool_state, statVars, poolVars, proofVars, signageVars,
                    stripVars, laterVars>>
    \/ /\ \E outcome \in CacheClearIterationOutcomes : CacheClearTaskIteration(outcome)
       /\ UNCHANGED <<now, cacheVars, pool_state, statVars, poolVars, proofVars, signageVars,
                    stripVars, laterVars>>

SpecTasks == InitTasks /\ [][NextTasks]_vars

\* what the tasks and handlers of the farmer's life cycle leave alone
NotTaskVars == <<now, cacheVars, pool_state, statVars, poolVars, proofVars, signageVars,
                 stripVars, laterVars>>

\* the event loop runs every task that can go on: an await of a task ends
\* (the sleep is over, the keychain or the pool has answered or failed), and
\* manage() goes on once the task it awaits is done
TasksGoOn ==
    /\ WF_vars(StartTaskLoopCheck /\ UNCHANGED NotTaskVars)
    /\ WF_vars((\E setup_keys \in SetupKeysOutcomes : StartTaskIteration(setup_keys))
                  /\ UNCHANGED NotTaskVars)
    /\ WF_vars((\E outcome \in PoolIterationOutcomes : PoolStateTaskIteration(outcome))
                  /\ UNCHANGED NotTaskVars)
    /\ WF_vars((\E outcome \in CacheClearIterationOutcomes : CacheClearTaskIteration(outcome))
                  /\ UNCHANGED NotTaskVars)
    /\ \A peer \in Peers : WF_vars(HandshakeTask(peer) /\ UNCHANGED NotTaskVars)
    /\ WF_vars(ManageAwaited /\ UNCHANGED NotTaskVars)
    /\ WF_vars(ManageClosed /\ UNCHANGED NotTaskVars)

SpecTasksLive == InitTasks /\ [][NextTasks]_vars /\ TasksGoOn

\* one call of strip_old_entries on arguments drawn from the sets above
InitStrip ==
    /\ now = 0
    /\ sps = EmptyDict
    /\ proofs_of_space = EmptyDict
    /\ quality_str_to_identifiers = EmptyDict
    /\ number_of_responses = EmptyDict
    /\ cache_add_time = EmptyDict
    /\ time_slept = 0
    /\ refresh_slept = 0
    /\ removed_keys = {}
    /\ sweep_now = None
    /\ refresh_events = FALSE
    /\ pool_state = EmptyDict
    /\ last_call = None
    /\ stat_calls = 0
    /\ stat_time = [l \in StatLists |-> 0]
    /\ monotone = TRUE
    /\ config_pool_list = <<>>
    /\ selected_network = "mainnet"
    /\ all_root_sks = {}
    /\ authentication_keys = EmptyDict
    /\ upd = IdleUpd
    /\ http_log = <<>>
    /\ call_notes = {}
    /\ last_step = None
    /\ succeeded = {}
    /\ quiet_calls = 0
    /\ pool_info_attempts = EmptyDict
    /\ first_pool_info = EmptyDict
    /\ forced_farmer_update = {}
    /\ pos_args = None
    /\ pos_result = None
    /\ prefix_bits_result = None
    /\ sp_constants = None
    /\ prev_signage_point = None
    /\ missing_result = None
    /\ shut_down = FALSE
    /\ started = FALSE
    /\ manage_pc = "none"
    /\ start_task = "none"
    /\ connections = {}
    /\ connected = {}
    /\ handshake_task = EmptyDict
    /\ handshakes = EmptyDict
    /\ update_pool_state_task = "none"
    /\ cache_clear_task = "none"
    /\ task_log = EmptyDict
    /\ \E pairs \in PairLists, before \in Befores :
          strip_args = Some([pairs |-> pairs, before |-> before])
    /\ strip_result = None
    /\ plot_sync_receivers = EmptyDict
    /\ delivered = EmptyDict
    /\ state_changes = <<>>
    /\ peer_call = None
    /\ pool_time_slept = 0
    /\ last_config_access_time = 0
    /\ config_mtime = 1
    /\ idle_wakeups = 0
    /\ iteration_log = <<>>

NextStrip ==
    /\ StripOldEntries
    /\ UNCHANGED <<now, cacheVars, pool_state, statVars, poolVars, proofVars,
                   signageVars, taskVars, laterVars>>

SpecStrip == InitStrip /\ [][NextStrip]_vars

\* the farmer after __init__ (farmer.py:153), with no connection yet
InitPeers ==
    /\ now = 0
    /\ sps = EmptyDict
    /\ proofs_of_space = EmptyDict
    /\ quality_str_to_identifiers = EmptyDict
    /\ number_of_responses = EmptyDict
    /\ cache_add_time = EmptyDict
    /\ time_slept = 0
    /\ refresh_slept = 0
    /\ removed_keys = {}
    /\ sweep_now = None
    /\ refresh_events = FALSE
    /\ pool_state = EmptyDict
    /\ last_call = None
    /\ stat_calls = 0
    /\ stat_time = [l \in StatLists |-> 0]
    /\ monotone = TRUE
    /\ config_pool_list = <<>>
    /\ selected_network = "mainnet"
    /\ all_root_sks = {}
    /\ authentication_keys = EmptyDict
    /\ upd = IdleUpd
    /\ http_log = <<>>
    /\ call_notes = {}
    /\ last_step = None
    /\ succeeded = {}
    /\ quiet_calls = 0
    /\ pool_info_attempts = EmptyDict
    /\ first_pool_info = EmptyDict
    /\ forced_farmer_update = {}
    /\ pos_args = None
    /\ pos_result = None
    /\ prefix_bits_result = None
    /\ sp_constants = None
    /\ prev_signage_point = None
    /\ missing_result = None
    /\ shut_down = FALSE
    /\ started = FALSE
    /\ manage_pc = "none"
    /\ start_task = "none"
    /\ connections = {}
    /\ connected = {}
    /\ handshake_task = EmptyDict
    /\ handshakes = EmptyDict
    /\ update_pool_state_task = "none"
    /\ cache_clear_task = "none"
    /\ task_log = EmptyDict
    /\ strip_args = None
    /\ strip_result = None
    /\ plot_sync_receivers = EmptyDict
    /\ delivered = EmptyDict
    /\ state_changes = <<>>
    /\ peer_call = None
    /\ pool_time_slept = 0
    /\ last_config_access_time = 0
    /\ config_mtime = 1
    /\ idle_wakeups = 0
    /\ iteration_log = <<>>

NextPeers ==
    \/ /\ \E connection \in PeerConnections : OnConnectReceiver(connection)
       /\ UNCHANGED <<now, cacheVars, pool_state, statVars, poolVars, proofVars, signageVars,
                      taskVars, stripVars, updaterVars>>
    \/ /\ \E connection \in PeerConnections : on_disconnect(connection)
       /\ UNCHANGED <<now, cacheVars, pool_state, statVars, poolVars, proofVars, signageVars,
                      taskVars, stripVars, updaterVars>>

SpecPeers == InitPeers /\ [][NextPeers]_vars

\* the pool-state updater as it is created (farmer.py:176, 815), with config.yaml on disk
InitUpdater ==
    /\ now = 0
    /\ sps = EmptyDict
    /\ proofs_of_space = EmptyDict
    /\ quality_str_to_identifiers = EmptyDict
    /\ number_of_responses = EmptyDict
    /\ cache_add_time = EmptyDict
    /\ time_slept = 0
    /\ refresh_slept = 0
    /\ removed_keys = {}
    /\ sweep_now = None
    /\ refresh_events = FALSE
    /\ pool_state = EmptyDict
    /\ last_call = None
    /\ stat_calls = 0
    /\ stat_time = [l \in StatLists |-> 0]
    /\ monotone = TRUE
    /\ config_pool_list = <<>>
    /\ selected_network = "mainnet"
    /\ all_root_sks = {}
    /\ authentication_keys = EmptyDict
    /\ upd = IdleUpd
    /\ http_log = <<>>
    /\ call_notes = {}
    /\ last_step = None
    /\ succeeded = {}
    /\ quiet_calls = 0
    /\ pool_info_attempts = EmptyDict
    /\ first_pool_info = EmptyDict
    /\ forced_farmer_update = {}
    /\ pos_args = None
    /\ pos_result = None
    /\ prefix_bits_result = None
    /\ sp_constants = None
    /\ prev_signage_point = None
    /\ missing_result = None
    /\ shut_down = FALSE
    /\ started = FALSE
    /\ manage_pc = "none"
    /\ start_task = "none"
    /\ connections = {}
    /\ connected = {}
    /\ handshake_task = EmptyDict
    /\ handshakes = EmptyDict
    /\ update_pool_state_task = "none"
    /\ cache_clear_task = "none"
    /\ task_log = EmptyDict
    /\ strip_args = None
    /\ strip_result = None
    /\ plot_sync_receivers = EmptyDict
    /\ delivered = EmptyDict
    /\ state_changes = <<>>
    /\ peer_call = None
    /\ pool_time_slept = 0
    /\ last_config_access_time = 0
    /\ config_mtime = 1
    /\ idle_wakeups = 0
    /\ iteration_log = <<>>

NextUpdater ==
    \/ /\ PoolUpdaterIteration
       /\ UNCHANGED <<now, cacheVars, pool_state, statVars, poolVars, proofVars, signageVars,
                      taskVars, stripVars, peerVars>>
    \/ /\ ConfigWritten
       /\ UNCHANGED <<now, cacheVars, pool_state, statVars, poolVars, proofVars, signageVars,
                      taskVars, stripVars, peerVars>>

SpecUpdater == InitUpdater /\ [][NextUpdater]_vars

(***************************************************************************)
(* Claims about the signage-point cache, checked under SpecCache.          *)
(***************************************************************************)
SweepLimit == 3 * SUB_SLOT_TIME_TARGET

\* C1: when a sweep evicts an sp_hash S, nothing about S remains after that
\* sweep: S is a key of none of sps, proofs_of_space, number_of_responses
\* and cache_add_time, and no entry of quality_str_to_identifiers records
\* S as its sp_hash (a lookup by such a quality finds nothing).
C1_EvictionRemovesEverything ==
    [][\A S \in SpHashes :
         (S \in DOMAIN cache_add_time /\ S \notin DOMAIN cache_add_time') =>
            /\ S \notin DOMAIN sps'
            /\ S \notin DOMAIN proofs_of_space'
            /\ S \notin DOMAIN number_of_responses'
            /\ \A q \in DOMAIN quality_str_to_identifiers' :
                  quality_str_to_identifiers'[q].sp_hash # S]_vars

\* C1 witness: the latest sweep has just evicted sp_1 together with the two
\* qualities indexed for it, while sp_2 is still cached.
C1_Witness ==
    /\ sweep_now = Some(now)
    /\ removed_keys = {"sp_1", "q_1", "q_2"}
    /\ "sp_2" \in DOMAIN sps
    /\ "sp_2" \notin DOMAIN proofs_of_space

\* C2: right after a sweep performed at time now, every key left in
\* cache_add_time is at most 3 x SUB_SLOT_TIME_TARGET old and every key the
\* sweep removed was older than that.
C2_SweepEvictsExactlyTheOld ==
    [][sweep_now' # sweep_now =>
         /\ \A k \in DOMAIN cache_add_time' :
               now' - cache_add_time'[k] <= SweepLimit
         /\ \A k \in DOMAIN cache_add_time \ DOMAIN cache_add_time' :
               now' - cache_add_time[k] > SweepLimit]_vars

\* C2 witness: a sweep has just removed some keys and kept a key that is
\* exactly at the limit.
C2_Witness ==
    /\ sweep_now = Some(now)
    /\ removed_keys # {}
    /\ \E k \in DOMAIN cache_add_time : now - cache_add_time[k] = SweepLimit

(***************************************************************************)
(* Claims about the statistics functions, checked under SpecStats.         *)
(***************************************************************************)
\* the list the latest call touched, or None
TouchedList ==
    IF last_call = None THEN None
    ELSE LET c == Val(last_call) IN
         IF c.p2 \in DOMAIN pool_state /\ (c.name \o "_24h") \in DOMAIN pool_state[c.p2]
         THEN Some(pool_state[c.p2][c.name \o "_24h"])
         ELSE None

EntriesWithinDay ==
    TouchedList # None =>
        \A i \in 1..Len(Val(TouchedList)) :
            Float(Val(TouchedList)[i][1]) >= Val(last_call).current_time - Float(SecondsPerDay)

\* C3 as stated: after any call of increment_pool_stats with
\* current_time = now that touches a list, every entry (t, v) of the list
\* has t >= now - 86400, whatever the order of the current_time values.
C3_Original == EntriesWithinDay

\* C3 amended: the same, for calls whose current_time values never
\* decrease on a list.
C3_EntriesWithinDayWhenMonotone == monotone => EntriesWithinDay

\* C3 witness: three calls with non-decreasing times on points_found, the
\* last one a day after the others, which it has dropped.
C3_Witness ==
    /\ monotone
    /\ stat_calls = 3
    /\ TouchedList # None
    /\ Val(last_call).name = "points_found"
    /\ pool_state["p2_A"].points_found_since_start = 3
    /\ Len(pool_state["p2_A"].points_found_24h) = 1

\* the suffixes of a list
Suffixes(list) == {SubSeq(list, k, Len(list)) : k \in 1..(Len(list) + 1)}

\* what a call with the arguments c has made of the record before of a
\* pool, the record after being the result
CountedAndAppended(c, before, after) ==
    LET since_start == c.name \o "_since_start"
        list_24h == c.name \o "_24h"
    IN  /\ DOMAIN after = DOMAIN before
        /\ \A key \in DOMAIN before \ {since_start, list_24h} : after[key] = before[key]
        /\ since_start \in DOMAIN before => after[since_start] = before[since_start] + c.count
        /\ list_24h \in DOMAIN before =>
              /\ after[list_24h] # <<>>
              /\ LET pair == after[list_24h][Len(after[list_24h])] IN
                    /\ Float(pair[1]) <= c.current_time
                    /\ c.current_time < Float(pair[1] + 1)
                    /\ pair[2] = IF c.value = None THEN before.current_difficulty
                                                   ELSE c.value
                    /\ after[list_24h] \in Suffixes(Append(before[list_24h], pair))

\* C19: a call increment_pool_stats(pool_states, p2, name, current_time,
\* count, value) for a p2 of pool_states adds count to <name>_since_start
\* and appends one pair to <name>_24h, where the record has those keys:
\* the list afterwards ends with the pair and is a suffix of the old list
\* with the pair appended; the timestamp of the pair is current_time
\* truncated to whole seconds and its value is value, or the
\* current_difficulty of the pool when value is None.  Every other field
\* of the record and every other record is unchanged, and a call for a p2
\* that is not in pool_states changes nothing.
C19_CountsAndAppendsOnePair ==
    [][stat_calls' # stat_calls =>
          LET c == Val(last_call') IN
          IF c.p2 \in DOMAIN pool_state
          THEN /\ DOMAIN pool_state' = DOMAIN pool_state
               /\ \A p2 \in DOMAIN pool_state \ {c.p2} : pool_state'[p2] = pool_state[p2]
               /\ CountedAndAppended(c, pool_state[c.p2], pool_state'[c.p2])
          ELSE pool_state' = pool_state]_vars

\* C19 witness: a second call on points_found, half a second past a whole
\* second, with count 2 and no value, has left the counter at 3 and the
\* list ending with the whole second and the difficulty of the pool.
C19_Witness ==
    /\ stat_calls = 2
    /\ last_call # None
    /\ Val(last_call).name = "points_found"
    /\ Val(last_call).current_time = Float(10) + 1
    /\ Val(last_call).count = 2
    /\ pool_state["p2_A"].current_difficulty = Some(1)
    /\ pool_state["p2_A"].points_found_since_start = 3
    /\ Len(pool_state["p2_A"].points_found_24h) = 2
    /\ pool_state["p2_A"].points_found_24h[2] = <<10, Some(1)>>

\* the counter names of a record: those with a <name>_since_start value
\* and a <name>_24h list
CounterNames(record) ==
    {name \in StatNames \cup {"points_acknowledged", "valid_partials",
                              "invalid_partials", "insufficient_partials",
                              "stale_partials", "missing_partials"} :
        /\ (name \o "_since_start") \in DOMAIN record
        /\ (name \o "_24h") \in DOMAIN record}

\* C40: whatever calls of increment_pool_stats with count >= 1 were made,
\* <name>_since_start of every record and counter name is at least the
\* length of <name>_24h; no call lowers a <name>_since_start or removes a
\* record; and a call for a p2 that has no record leaves pool_state as it
\* was, without a record for that p2.
C40_CounterNeverBelowListLength ==
    /\ [](\A p2 \in DOMAIN pool_state :
            \A name \in CounterNames(pool_state[p2]) :
                pool_state[p2][name \o "_since_start"] >=
                    Len(pool_state[p2][name \o "_24h"]))
    /\ [][\A p2 \in DOMAIN pool_state :
            /\ p2 \in DOMAIN pool_state'
            /\ \A name \in CounterNames(pool_state[p2]) :
                  pool_state'[p2][name \o "_since_start"] >=
                      pool_state[p2][name \o "_since_start"]]_vars
    /\ [][stat_calls' # stat_calls /\ Val(last_call').p2 \notin DOMAIN pool_state =>
            pool_state' = pool_state]_vars

\* C40 witness: after a call with count 1 and a call with count 2 on
\* points_found, a call for a pool without a record has changed nothing:
\* the counter is 3, the list holds two pairs, the pool has no record.
C40_Witness ==
    /\ stat_calls = 3
    /\ last_call # None
    /\ Val(last_call).p2 = "p2_B"
    /\ "p2_B" \notin DOMAIN pool_state
    /\ "points_found" \in CounterNames(pool_state["p2_A"])
    /\ pool_state["p2_A"].points_found_since_start = 3
    /\ Len(pool_state["p2_A"].points_found_24h) = 2

(***************************************************************************)
(* Claims about the pool client, checked under SpecPool.  http_log holds   *)
(* the requests and responses of the latest update_pool_state call,        *)
(* upd.list the pool configurations that call loaded.                      *)
(***************************************************************************)
LoadedPools == {upd.list[i] : i \in DOMAIN upd.list}

\* positions in http_log of the events of one kind for one pool
Events(p2, event, request) ==
    {i \in DOMAIN http_log : /\ http_log[i].p2 = p2
                             /\ http_log[i].event = event
                             /\ http_log[i].request = request}
Requests(p2) ==
    {i \in DOMAIN http_log : http_log[i].p2 = p2 /\ http_log[i].event = "request"}
First(positions) == CHOOSE i \in positions : \A j \in positions : i <= j
Last(positions) == CHOOSE i \in positions : \A j \in positions : i >= j

\* the latest call has gone past this pool configuration
Processed(pool_config) ==
    \/ upd.pc = "idle" /\ pool_config \in LoadedPools
    \/ \E i \in DOMAIN upd.list : i < upd.idx /\ upd.list[i] = pool_config

OwnerKeyFound(pool_config) == find_owner_sk(all_root_sks, pool_config.owner_public_key)

\* C4: current_difficulty of a pool_state record is null as long as the
\* pool has had no successful GET /pool_info and no successful GET /farmer,
\* and a record whose current_difficulty is non-null keeps a non-null
\* current_difficulty (and stays in pool_state) in every step.
C4_DifficultyNullUntilSuccessThenNeverNull ==
    /\ [](\A p2 \in DOMAIN pool_state :
            p2 \notin succeeded => pool_state[p2].current_difficulty = None)
    /\ [][\A p2 \in DOMAIN pool_state :
            pool_state[p2].current_difficulty # None =>
                /\ p2 \in DOMAIN pool_state'
                /\ pool_state'[p2].current_difficulty # None]_vars

\* C4 witness: a pool whose difficulty was set by GET /farmer is seen
\* again by a later call that was answered with a failure.
C4_Witness ==
    /\ "p2_A" \in DOMAIN pool_state
    /\ pool_state["p2_A"].current_difficulty = Some(2)
    /\ now > 0
    /\ upd.pc = "idle"
    /\ \E i \in DOMAIN http_log : http_log[i].outcome = "failed"

\* C5: a call of update_pool_state that follows another one with no time
\* elapsed, no set_payout_instructions and no change of the root keys in
\* between issues no request at all.
C5_SecondCallIssuesNoRequest == quiet_calls = 2 => http_log = <<>>

\* C5 witness: the second of two such calls is over, for a pool the first
\* call contacted (with a failure among its responses).
C5_Witness ==
    /\ quiet_calls = 2
    /\ upd.pc = "idle"
    /\ "p2_A" \in DOMAIN pool_state
    /\ pool_state["p2_A"].next_pool_info_update > now
    /\ pool_state["p2_A"].next_farmer_update > now
    /\ pool_state["p2_A"].pool_errors_24h # <<>>

\* the payout instructions the latest successful GET /farmer of the call
\* returned for the pool, when the latest GET /farmer response was a success
FarmerRefreshSucceeded(p2) ==
    /\ Events(p2, "response", "GET /farmer") # {}
    /\ http_log[Last(Events(p2, "response", "GET /farmer"))].outcome = "ok"
ReportedPayout(p2) == http_log[Last(Events(p2, "response", "GET /farmer"))].payout

C7_NewPoolUrlIffAllPermanentRedirects ==
    last_step # None /\ Val(last_step).resp.ok =>
        LET step == Val(last_step)
            all_permanent ==
                /\ step.resp.url # PoolInfoUrl(step.pool_url)
                /\ Len(step.resp.history) > 0
                /\ \A i \in DOMAIN step.resp.history :
                      step.resp.history[i] = 301 \/ step.resp.history[i] = 308
        IN  step.persisted = IF all_permanent
                             THEN Some(RemovePoolInfo(step.resp.url))
                             ELSE None

\* C7 witness: a response that came through a 301 and a 308 redirect has
\* just been handled and the configuration names the new URL.
C7_Witness ==
    /\ last_step # None
    /\ Val(last_step).resp.ok
    /\ Val(last_step).resp.history = <<301, 308>>
    /\ Val(last_step).pool_url = HttpsA
    /\ Val(last_step).persisted = Some(HttpsB)
    /\ \E i \in DOMAIN config_pool_list : config_pool_list[i].pool_url = HttpsB

\* the first GET /farmer of the call for the pool was answered FARMER_NOT_KNOWN
FarmerNotKnown(p2) ==
    /\ Events(p2, "response", "GET /farmer") # {}
    /\ http_log[First(Events(p2, "response", "GET /farmer"))].code = "FARMER_NOT_KNOWN"

\* what follows a FARMER_NOT_KNOWN when the POST /farmer is issued
RegistrationSequence(p2) ==
    LET gets == Events(p2, "request", "GET /farmer")
        got == Events(p2, "response", "GET /farmer")
        posts == Events(p2, "request", "POST /farmer")
        posted == Events(p2, "response", "POST /farmer")
    IN  /\ Cardinality(posts) = 1
        /\ First(posts) > First(got)
        /\ IF posted # {} /\ http_log[First(posted)].outcome = "ok"
           THEN /\ Cardinality(gets) = 2
                /\ Last(gets) > First(posted)
                /\ Cardinality(got) = 2 /\ http_log[Last(got)].outcome = "ok" =>
                      /\ pool_state[p2].current_difficulty = Some(2)
                      /\ pool_state[p2].current_points = 7
           ELSE Cardinality(gets) = 1

InsecureOnMainnet(pool_config) ==
    /\ selected_network = "mainnet"
    /\ pool_config.pool_url # EmptyUrl
    /\ pool_config.pool_url[1] # "https://"

\* C9 as stated: for a non-https pool_url on mainnet the call issues no
\* request for the pool and appends an entry to its pool_errors_24h.
C9_Original ==
    \A pool_config \in LoadedPools :
        LET p2 == pool_config.p2_singleton_puzzle_hash IN
        InsecureOnMainnet(pool_config) /\ Processed(pool_config) =>
            /\ Requests(p2) = {}
            /\ p2 \in DOMAIN pool_state
            /\ \E i \in DOMAIN pool_state[p2].pool_errors_24h :
                  pool_state[p2].pool_errors_24h[i][1] = now

\* C9: for a non-https pool_url on mainnet no step of the call issues a
\* request for the pool or changes its pool_errors_24h (a record created by
\* the call has an empty one), and once the call is past the pool it has
\* logged the error if the pool's authentication key was found.
C9_InsecurePoolSkippedWithoutErrorCount ==
    [][\A pool_config \in LoadedPools' :
          LET p2 == pool_config.p2_singleton_puzzle_hash IN
          InsecureOnMainnet(pool_config) =>
              /\ Requests(p2)' = {}
              /\ p2 \in DOMAIN pool_state' =>
                    pool_state'[p2].pool_errors_24h =
                        IF p2 \in DOMAIN pool_state
                        THEN pool_state[p2].pool_errors_24h ELSE <<>>
              /\ Processed(pool_config)' /\ p2 \in DOMAIN authentication_keys' =>
                    <<p2, "https_required">> \in call_notes']_vars

\* C9 witness: a call on mainnet is over that skipped the http pool and
\* logged the error.
C9_Witness ==
    /\ upd.pc = "idle"
    /\ selected_network = "mainnet"
    /\ \E pool_config \in LoadedPools : pool_config.pool_url = HttpA
    /\ <<"p2_A", "https_required">> \in call_notes
    /\ "p2_A" \in DOMAIN pool_state
    /\ pool_state["p2_A"].pool_errors_24h = <<>>

\* C10 as stated: for a self-pooling configuration the call issues no
\* request, and after the call pool_state holds a record for the pool whose
\* pool_config is the loaded configuration.
C10_Original ==
    \A pool_config \in LoadedPools :
        LET p2 == pool_config.p2_singleton_puzzle_hash IN
        pool_config.pool_url = EmptyUrl =>
            /\ Requests(p2) = {}
            /\ upd.pc = "idle" =>
                  /\ p2 \in DOMAIN pool_state
                  /\ pool_state[p2].pool_config = pool_config

\* C10: for a self-pooling configuration the call issues no request; after
\* the call pool_state holds a record for the pool whose pool_config is the
\* loaded configuration if an authentication key was found for the pool,
\* and holds no record for it if none was ever found.
C10_SelfPoolingRecordKeptWhenKeyFound ==
    \A pool_config \in LoadedPools :
        LET p2 == pool_config.p2_singleton_puzzle_hash IN
        pool_config.pool_url = EmptyUrl =>
            /\ Requests(p2) = {}
            /\ upd.pc = "idle" =>
                  IF p2 \in DOMAIN authentication_keys
                  THEN /\ p2 \in DOMAIN pool_state
                       /\ pool_state[p2].pool_config = pool_config
                  ELSE p2 \notin DOMAIN pool_state

\* C10 witness: a call is over that kept the record of the self-pooling
\* entry and contacted the pool listed after it.
C10_Witness ==
    /\ upd.pc = "idle"
    /\ \E pool_config \in LoadedPools :
          /\ pool_config.p2_singleton_puzzle_hash = "p2_B"
          /\ pool_config.pool_url = EmptyUrl
          /\ "p2_B" \in DOMAIN pool_state
          /\ pool_state["p2_B"].pool_config = pool_config
    /\ Requests("p2_B") = {}
    /\ Requests("p2_A") # {}

\* the pools one step of a call failed for: a response that is not a
\* success, or an error the call logged for the pool, among the events the
\* step added
NewResponses ==
    {i \in DOMAIN http_log' : /\ upd.pc = "idle" \/ i > Len(http_log)
                              /\ http_log'[i].event = "response"
                              /\ http_log'[i].outcome # "ok"}
NewNotes == IF upd.pc = "idle" THEN call_notes' ELSE call_notes' \ call_notes
FailedInStep == {http_log'[i].p2 : i \in NewResponses} \cup {note[1] : note \in NewNotes}
PositionOf(p2) == CHOOSE i \in DOMAIN upd'.list : upd'.list[i].p2_singleton_puzzle_hash = p2

\* C17: a step of update_pool_state in which the processing of one pool
\* fails (a failed request, an error response, an exception, a pool
\* skipped with an error) leaves the pool_state record of every pool that
\* is not behind the failing one in the list as it was, and the loop goes
\* on: after the step the call is either still at the failing pool or past
\* it, and a call is over only when the loop has run off the end of the
\* list.
C17_FailureOfOnePoolIsIsolated ==
    /\ [](upd.pc = "idle" /\ upd.list # <<>> => upd.idx = Len(upd.list) + 1)
    /\ [][\A failed \in FailedInStep :
            /\ upd'.idx >= PositionOf(failed)
            /\ \A p2 \in DOMAIN pool_state :
                  /\ p2 # failed
                  /\ \A i \in DOMAIN upd'.list :
                        upd'.list[i].p2_singleton_puzzle_hash = p2 => i < PositionOf(failed)
                  => /\ p2 \in DOMAIN pool_state'
                     /\ pool_state'[p2] = pool_state[p2]]_vars

\* C17 witness: a call over a pool followed by a self-pooling entry is
\* over; a request to the pool failed and the processing of the pool
\* raised an exception, and the self-pooling entry behind it has its
\* record.
C17_Witness ==
    /\ upd.pc = "idle"
    /\ Len(upd.list) = 2
    /\ upd.list[1].p2_singleton_puzzle_hash = "p2_A"
    /\ <<"p2_A", "exception">> \in call_notes
    /\ \E i \in DOMAIN http_log : http_log[i].p2 = "p2_A" /\ http_log[i].outcome = "failed"
    /\ "p2_B" \in DOMAIN pool_state

\* a step that starts a call of update_pool_state
StartsCall == upd.pc = "idle" /\ quiet_calls' > 0

\* the positions in http_log' of the requests the step sent
SentInStep ==
    {i \in DOMAIN http_log' : /\ StartsCall \/ (upd.pc # "idle" /\ i > Len(http_log))
                              /\ http_log'[i].event = "request"}
\* the pools the step logged that note for
NotedInStep(note) ==
    {p2 \in P2s : /\ <<p2, note>> \in call_notes'
                  /\ StartsCall \/ (upd.pc # "idle" /\ <<p2, note>> \notin call_notes)}
FarmerRequests == {"GET /farmer", "POST /farmer", "PUT /farmer"}

\* the fields of a pool_state record that the code ahead of the farmer
\* refresh can write in the same step: pool_config at the head of the loop
\* body, the outcome of a failed GET /pool_info after its await
WrittenAheadOfFarmerRefresh ==
    IF StartsCall THEN {"pool_config"} ELSE {"next_pool_info_update", "pool_errors_24h"}

\* C21: a GET /farmer, POST /farmer or PUT /farmer is sent for a pool only
\* when the authentication_token_timeout of the pool is not null; a farmer
\* refresh that is due while it is null logs the warning, sends no request
\* to /farmer and writes next_farmer_update only: every field of the
\* record that the code ahead of the refresh does not write is as before.
C21_NoFarmerRequestWithoutTokenTimeout ==
    [][/\ \A i \in SentInStep :
            http_log'[i].request \in FarmerRequests =>
                pool_state'[http_log'[i].p2].authentication_token_timeout # None
       /\ \A p2 \in NotedInStep("no_authentication_token_timeout") :
            /\ p2 \in DOMAIN pool_state
            /\ \A i \in SentInStep :
                  http_log'[i].p2 = p2 => http_log'[i].request \notin FarmerRequests
            /\ pool_state'[p2].authentication_token_timeout = None
            /\ pool_state'[p2].next_farmer_update = now' + UPDATE_POOL_FARMER_INFO_INTERVAL
            /\ \A key \in DOMAIN pool_state[p2]
                          \ ({"next_farmer_update"} \cup WrittenAheadOfFarmerRefresh) :
                  pool_state'[p2][key] = pool_state[p2][key]]_vars

\* C21 witness: a call is over in which GET /pool_info failed and the
\* farmer refresh that was due found no authentication_token_timeout.
C21_Witness ==
    /\ upd.pc = "idle"
    /\ <<"p2_A", "no_authentication_token_timeout">> \in call_notes
    /\ "p2_A" \in DOMAIN pool_state
    /\ pool_state["p2_A"].authentication_token_timeout = None
    /\ pool_state["p2_A"].next_farmer_update = now + UPDATE_POOL_FARMER_INFO_INTERVAL
    /\ \E i \in DOMAIN http_log : http_log[i].request = "GET /pool_info"
                                   /\ http_log[i].outcome = "failed"
    /\ \A i \in DOMAIN http_log : http_log[i].request \notin FarmerRequests

\* C22: after a GET /pool_info for a pool that was started at time t,
\* next_pool_info_update of the pool is at least t + 3600 when the attempt
\* succeeded and at least t + 120 when it failed (no 2xx response, or a
\* body with an error_code); and a GET /pool_info is sent for a pool no
\* sooner than 120 seconds after the previous one for that pool was
\* started, and no sooner than 3600 seconds after it when it succeeded.
C22_PoolInfoIntervals ==
    /\ [](\A p2 \in DOMAIN pool_info_attempts :
            LET attempt == pool_info_attempts[p2] IN
            pool_state[p2].next_pool_info_update >=
                attempt.time + (IF attempt.outcome \in {"failed", "error_code"}
                                THEN UPDATE_POOL_INFO_FAILURE_RETRY_INTERVAL
                                ELSE UPDATE_POOL_INFO_INTERVAL))
    /\ [][\A i \in SentInStep :
            LET p2 == http_log'[i].p2 IN
            http_log'[i].request = "GET /pool_info" /\ p2 \in DOMAIN pool_info_attempts =>
                LET previous == pool_info_attempts[p2] IN
                /\ now' >= previous.time + UPDATE_POOL_INFO_FAILURE_RETRY_INTERVAL
                /\ previous.outcome = "ok" =>
                        now' >= previous.time + UPDATE_POOL_INFO_INTERVAL]_vars

\* C22 witness: a GET /pool_info was sent 120 seconds after the failed
\* one before it, and it failed as well.
C22_Witness ==
    /\ "p2_A" \in DOMAIN pool_info_attempts
    /\ pool_info_attempts["p2_A"] =
            [time |-> UPDATE_POOL_INFO_FAILURE_RETRY_INTERVAL, outcome |-> "failed"]
    /\ Len(pool_state["p2_A"].pool_errors_24h) = 2
    /\ pool_state["p2_A"].next_pool_info_update = 2 * UPDATE_POOL_INFO_FAILURE_RETRY_INTERVAL

\* a body of a 2xx response without an error_code
SuccessBody(resp) == resp.ok /\ "error_code" \notin DOMAIN resp.body

\* C23: the step that handles a successful GET /pool_info of a pool sets
\* authentication_token_timeout of the pool to the value of the response,
\* and sets current_difficulty to minimum_difficulty of the response when
\* it was null; a current_difficulty that was not null, whether from an
\* earlier GET /pool_info or from a GET /farmer, is left as it was.
C23_PoolInfoSeedsDifficultyOnce ==
    [][upd.pc = "pool_info" /\ Len(http_log') > Len(http_log)
          /\ SuccessBody(Val(last_step').resp) =>
          LET p2 == Val(last_step').p2
              body == Val(last_step').resp.body
          IN  /\ pool_state'[p2].authentication_token_timeout =
                    Some(body.authentication_token_timeout)
              /\ pool_state'[p2].current_difficulty =
                    IF pool_state[p2].current_difficulty = None
                    THEN Some(body.minimum_difficulty)
                    ELSE pool_state[p2].current_difficulty]_vars

\* C23 witness: GET /farmer had set current_difficulty to 2; an hour later
\* a GET /pool_info that reported minimum_difficulty 1 has succeeded, and
\* current_difficulty is still 2.
C23_Witness ==
    /\ last_step # None
    /\ SuccessBody(Val(last_step).resp)
    /\ Val(last_step).p2 = "p2_A"
    /\ Val(last_step).resp.body.minimum_difficulty = 1
    /\ now = UPDATE_POOL_INFO_INTERVAL
    /\ pool_state["p2_A"].current_difficulty = Some(2)
    /\ pool_state["p2_A"].authentication_token_timeout =
            Some(Val(last_step).resp.body.authentication_token_timeout)

\* the first GET /farmer of the call for the pool was answered
\* INVALID_SIGNATURE
InvalidSignature(p2) ==
    /\ Events(p2, "response", "GET /farmer") # {}
    /\ http_log[First(Events(p2, "response", "GET /farmer"))].code = "INVALID_SIGNATURE"

\* the step handles a first GET /farmer that was answered INVALID_SIGNATURE
\* and leaves current_difficulty and current_points of the pool as they were
InvalidSignatureLeavesFarmerInfo ==
    upd.pc = "get_farmer" /\ Len(http_log') > Len(http_log)
        /\ http_log'[Len(http_log) + 1].code = "INVALID_SIGNATURE" =>
        LET p2 == http_log'[Len(http_log) + 1].p2 IN
        /\ pool_state'[p2].current_difficulty = pool_state[p2].current_difficulty
        /\ pool_state'[p2].current_points = pool_state[p2].current_points

C25_Original ==
    [][upd.pc # "idle" /\ Len(http_log') > Len(http_log)
          /\ http_log'[Len(http_log) + 1].outcome = "error_code" =>
          LET response == http_log'[Len(http_log) + 1]
              errors == pool_state[response.p2].pool_errors_24h
              entry == <<uint32(Float(now)), [error_code |-> response.code]>>
          IN  pool_state'[response.p2].pool_errors_24h \in
                  Suffixes(Append(errors, entry)) \ {<<>>}]_vars

\* the step ran the farmer refresh of the pool: next_farmer_update was due
\* and has been set
FarmerRefreshRan(p2) ==
    /\ p2 \in DOMAIN pool_state'
    /\ pool_state'[p2].next_farmer_update = now' + UPDATE_POOL_FARMER_INFO_INTERVAL
    /\ pool_state[p2].next_farmer_update # now' + UPDATE_POOL_FARMER_INFO_INTERVAL

\* the step handled a successful GET /pool_info of the pool
PoolInfoSucceededInStep(p2) ==
    /\ upd.pc = "pool_info"
    /\ Len(http_log') > Len(http_log)
    /\ http_log'[Len(http_log) + 1].p2 = p2
    /\ http_log'[Len(http_log) + 1].outcome = "ok"

\* C26: no GET /farmer, POST /farmer or PUT /farmer is sent for a pool
\* whose authentication_token_timeout is zero; a farmer refresh that is due
\* for such a pool ends in an exception that is logged for the pool, leaves
\* current_points as it was and current_difficulty as the GET /pool_info
\* ahead of it left it, and the loop goes on behind the pool.
C26_ZeroTokenTimeoutSkipsPool ==
    /\ [](\A p2 \in DOMAIN pool_state :
            pool_state[p2].authentication_token_timeout = Some(0) =>
                \A i \in DOMAIN http_log :
                    http_log[i].p2 = p2 => http_log[i].request \notin FarmerRequests)
    /\ [][\A p2 \in DOMAIN pool_state :
            FarmerRefreshRan(p2) /\ pool_state'[p2].authentication_token_timeout = Some(0) =>
                /\ <<p2, "exception">> \in call_notes'
                /\ pool_state'[p2].current_points = pool_state[p2].current_points
                /\ pool_state'[p2].current_difficulty =
                      IF PoolInfoSucceededInStep(p2) /\ pool_state[p2].current_difficulty = None
                      THEN Some(Val(last_step').resp.body.minimum_difficulty)
                      ELSE pool_state[p2].current_difficulty
                /\ upd'.idx > PositionOf(p2)]_vars

\* C26 witness: a call over a pool followed by a self-pooling entry is
\* over; the pool had reported a zero authentication_token_timeout, its
\* farmer refresh was due and raised the exception without a request, and
\* the entry behind it has its record.
C26_Witness ==
    /\ upd.pc = "idle"
    /\ Len(upd.list) = 2
    /\ upd.list[1].p2_singleton_puzzle_hash = "p2_A"
    /\ "p2_A" \in DOMAIN pool_state
    /\ pool_state["p2_A"].authentication_token_timeout = Some(0)
    /\ pool_state["p2_A"].next_farmer_update = now + UPDATE_POOL_FARMER_INFO_INTERVAL
    /\ <<"p2_A", "exception">> \in call_notes
    /\ http_log = <<>>
    /\ "p2_B" \in DOMAIN pool_state

\* C27: a pool configuration for which get_authentication_sk finds no key,
\* neither a cached one nor one derived from the root keys, is skipped by
\* the call: once the call is past it, the call has sent no request for the
\* pool and has logged the error, and the step has neither created nor
\* changed a pool_state record for it; a self-pooling configuration whose
\* key was found has its record.
C27_NoKeyNoRequestNoRecord ==
    [][\A pool_config \in LoadedPools' :
          LET p2 == pool_config.p2_singleton_puzzle_hash IN
          Processed(pool_config)' =>
              IF p2 \notin DOMAIN authentication_keys'
              THEN /\ Requests(p2)' = {}
                   /\ <<p2, "no_authentication_sk">> \in call_notes'
                   /\ p2 \in DOMAIN pool_state' <=> p2 \in DOMAIN pool_state
                   /\ p2 \in DOMAIN pool_state => pool_state'[p2] = pool_state[p2]
              ELSE pool_config.pool_url = EmptyUrl => p2 \in DOMAIN pool_state']_vars

\* C27 witness: a call with root keys that do not hold the owner key of
\* the pool is over; it logged the error for the pool, sent nothing and
\* left pool_state without a record for it.
C27_Witness ==
    /\ upd.pc = "idle"
    /\ \E pool_config \in LoadedPools :
          /\ pool_config.p2_singleton_puzzle_hash = "p2_A"
          /\ pool_config.pool_url # EmptyUrl
          /\ find_authentication_sk(all_root_sks, pool_config.owner_public_key) = None
    /\ "p2_A" \notin DOMAIN authentication_keys
    /\ <<"p2_A", "no_authentication_sk">> \in call_notes
    /\ http_log = <<>>
    /\ "p2_A" \notin DOMAIN pool_state

\* the first call of update_pool_state that starts after
\* set_payout_instructions has run for the launcher of that pool
FirstCallAfterPayoutSet(p2) ==
    /\ StartsCall
    /\ quiet_calls = 0
    /\ p2 \in forced_farmer_update

\* the pool is configured with a URL the farmer may use, its authentication
\* key is found, it has reported a usable authentication_token_timeout, and
\* no GET /pool_info is due for it in the call that starts
ReadyForFarmerRefresh(p2) ==
    /\ p2 \in DOMAIN pool_state
    /\ pool_state[p2].authentication_token_timeout \notin {None, Some(0)}
    /\ now' < pool_state[p2].next_pool_info_update
    /\ \E i \in DOMAIN config_pool_list :
          LET pool_config == config_pool_list[i] IN
          /\ pool_config.p2_singleton_puzzle_hash = p2
          /\ pool_config.pool_url # EmptyUrl
          /\ ~HttpsViolation(selected_network, pool_config.pool_url)
          /\ find_authentication_sk(all_root_sks', pool_config.owner_public_key) # None

\* C35 as stated, for the calls that have no GET /pool_info to wait for:
\* the first call of update_pool_state that starts after
\* set_payout_instructions has run for the launcher of a pool sends a
\* GET /farmer for the pool, and does so with the payout instructions of
\* the configuration in its pool_config.
C35_Original ==
    [][\A p2 \in P2s :
          FirstCallAfterPayoutSet(p2) /\ ReadyForFarmerRefresh(p2) =>
              /\ \E i \in SentInStep : /\ http_log'[i].p2 = p2
                                       /\ http_log'[i].request = "GET /farmer"
              /\ \A i \in DOMAIN upd'.list :
                    upd'.list[i].p2_singleton_puzzle_hash = p2 =>
                        upd'.list[i].payout_instructions \in ConfiguredPayouts]_vars

\* the pools for which the step ran a due farmer refresh that it could
\* tell from the log: the first GET /farmer of the call for the pool was
\* sent, or the refresh was skipped for a null authentication_token_timeout
DueFarmerRefreshes ==
    NotedInStep("no_authentication_token_timeout") \cup
    {http_log'[i].p2 : i \in {j \in SentInStep :
        /\ http_log'[j].request = "GET /farmer"
        /\ \A k \in 1..(j - 1) :
              ~(/\ http_log'[k].p2 = http_log'[j].p2
                /\ http_log'[k].event = "request"
                /\ http_log'[k].request = "GET /farmer")}}

DeadlineAdvancedOnEveryDueRefresh ==
    [][\A p2 \in DueFarmerRefreshes :
          pool_state'[p2].next_farmer_update =
              now' + UPDATE_POOL_FARMER_INFO_INTERVAL]_vars

\* the first GET /pool_info of the pool has failed
FirstPoolInfoFailed(p2) ==
    /\ p2 \in DOMAIN first_pool_info
    /\ first_pool_info[p2].outcome \in {"failed", "error_code"}

\* no GET /farmer of the latest call is earlier than 300 seconds after the
\* first GET /pool_info of the pool
NoFarmerRequestBeforeDeadline(p2) ==
    Events(p2, "request", "GET /farmer") # {} =>
        now >= first_pool_info[p2].time + UPDATE_POOL_FARMER_INFO_INTERVAL

\* C38 as stated: the step that runs a due farmer refresh of a pool, a
\* skipped one included, sets next_farmer_update to the time of the call
\* plus 300; and when the first GET /pool_info of a pool, sent at t0, has
\* failed, no GET /farmer is sent for the pool before t0 + 300.
C38_Original ==
    /\ DeadlineAdvancedOnEveryDueRefresh
    /\ [](\A p2 \in P2s : FirstPoolInfoFailed(p2) => NoFarmerRequestBeforeDeadline(p2))

\* C38: the step that runs a due farmer refresh of a pool, a skipped one
\* included, sets next_farmer_update to the time of the call plus 300; and
\* when the first GET /pool_info of a pool, sent at t0, has failed, no
\* GET /farmer is sent for the pool before t0 + 300 unless
\* set_payout_instructions has reset next_farmer_update of the pool.
C38_DeadlineAdvancedUnlessPayoutSet ==
    /\ DeadlineAdvancedOnEveryDueRefresh
    /\ [](\A p2 \in P2s \ forced_farmer_update :
            FirstPoolInfoFailed(p2) => NoFarmerRequestBeforeDeadline(p2))

\* C38 witness: the first GET /pool_info failed at time 0 and the refresh
\* was skipped; the retry 120 seconds later has succeeded, the call is
\* over, and no GET /farmer was sent: next_farmer_update is still 300.
C38_Witness ==
    /\ FirstPoolInfoFailed("p2_A")
    /\ first_pool_info["p2_A"].time = 0
    /\ "p2_A" \notin forced_farmer_update
    /\ pool_info_attempts["p2_A"] =
            [time |-> UPDATE_POOL_INFO_FAILURE_RETRY_INTERVAL, outcome |-> "ok"]
    /\ now = UPDATE_POOL_INFO_FAILURE_RETRY_INTERVAL
    /\ upd.pc = "idle"
    /\ pool_state["p2_A"].authentication_token_timeout # None
    /\ Events("p2_A", "request", "GET /farmer") = {}
    /\ pool_state["p2_A"].next_farmer_update = UPDATE_POOL_FARMER_INFO_INTERVAL

\* a 2xx response that came through redirects that are all permanent
ThroughPermanentRedirects(step) ==
    /\ step.resp.ok
    /\ step.resp.url # PoolInfoUrl(step.pool_url)
    /\ Len(step.resp.history) > 0
    /\ \A i \in DOMAIN step.resp.history :
          step.resp.history[i] = 301 \/ step.resp.history[i] = 308

\* C39: the step that handles a 2xx GET /pool_info response that came
\* through an all-permanent redirect chain with an error_code in its body
\* writes the redirected URL to the configuration entries of the launcher,
\* leaves authentication_token_timeout and current_difficulty of the pool
\* as they were and sets next_pool_info_update to the time of the call
\* plus 120.
C39_ErrorBodyStillPersistsRedirect ==
    [][upd.pc = "pool_info" /\ Len(http_log') > Len(http_log)
          /\ ThroughPermanentRedirects(Val(last_step'))
          /\ "error_code" \in DOMAIN Val(last_step').resp.body =>
          LET step == Val(last_step')
              p2 == step.p2
              launcher_id == upd.list[upd.idx].launcher_id
          IN  /\ step.persisted = Some(RemovePoolInfo(step.resp.url))
              /\ \A i \in DOMAIN config_pool_list' :
                    config_pool_list'[i].launcher_id = launcher_id =>
                        config_pool_list'[i].pool_url = RemovePoolInfo(step.resp.url)
              /\ \E i \in DOMAIN config_pool_list' :
                    config_pool_list'[i].launcher_id = launcher_id
              /\ pool_state'[p2].authentication_token_timeout =
                    pool_state[p2].authentication_token_timeout
              /\ pool_state'[p2].current_difficulty = pool_state[p2].current_difficulty
              /\ pool_state'[p2].next_pool_info_update =
                    now' + UPDATE_POOL_INFO_FAILURE_RETRY_INTERVAL]_vars

\* C39 witness: a GET /pool_info sent to the first URL was answered through
\* a 301 and a 308 redirect with an error_code; the configuration names
\* the new URL, the pool has no authentication_token_timeout and no
\* difficulty yet, and the next attempt is due in 120 seconds.
C39_Witness ==
    /\ last_step # None
    /\ ThroughPermanentRedirects(Val(last_step))
    /\ Val(last_step).resp.history = <<301, 308>>
    /\ "error_code" \in DOMAIN Val(last_step).resp.body
    /\ Val(last_step).p2 = "p2_A"
    /\ Val(last_step).pool_url = HttpsA
    /\ \E i \in DOMAIN config_pool_list : config_pool_list[i].pool_url = HttpsB
    /\ pool_state["p2_A"].authentication_token_timeout = None
    /\ pool_state["p2_A"].current_difficulty = None
    /\ pool_state["p2_A"].next_pool_info_update =
            now + UPDATE_POOL_INFO_FAILURE_RETRY_INTERVAL

(***************************************************************************)
(* Claims about proof of space verification, checked under SpecProof.      *)
(***************************************************************************)
ExactlyOnePoolTarget(pos) ==
    (pos.pool_public_key = None) # (pos.pool_contract_puzzle_hash = None)

PoolTargetMessages ==
    { "Expected pool public key or pool contract puzzle hash but got neither",
      "Expected pool public key or pool contract puzzle hash but got both" }

\* C11: verify_and_get_quality_string returns a quality string only for a
\* proof with exactly one of pool_public_key and pool_contract_puzzle_hash;
\* a proof with both or with neither is rejected by that check (None is
\* returned and the error logged is the one of that check), whatever its
\* size, version, challenge and proof are.
C11_QualityOnlyWithExactlyOnePoolTarget ==
    pos_result # None =>
        LET pos == Val(pos_args).pos
            result == Val(pos_result)
        IN  /\ (result.outcome = "return" /\ result.value # None)
                  => ExactlyOnePoolTarget(pos)
            /\ ~ExactlyOnePoolTarget(pos)
                  => /\ result.outcome = "return"
                     /\ result.value = None
                     /\ result.log # None
                     /\ Val(result.log) \in PoolTargetMessages

\* a proof with both a pool key and a contract puzzle hash, of a size below
\* the minimum, was rejected
C11_Witness ==
    /\ pos_result # None
    /\ Val(pos_args).pos.pool_public_key # None
    /\ Val(pos_args).pos.pool_contract_puzzle_hash # None
    /\ Val(pos_args).pos.size = 31
    /\ Val(pos_result).value = None

\* the plot id of a proof with exactly one pool target
PlotIdOf(pos) ==
    IF pos.pool_public_key = None
    THEN calculate_plot_id_ph(Val(pos.pool_contract_puzzle_hash), pos.plot_public_key)
    ELSE calculate_plot_id_pk(Val(pos.pool_public_key), pos.plot_public_key)

\* C12: whenever verify_and_get_quality_string returns a quality string,
\* the challenge computed from the plot id, the original challenge hash and
\* the signage point equals pos.challenge, and the plot passes the plot
\* filter for the prefix bits that apply to it (calculate_prefix_bits for a
\* v1 plot).
C12_QualityImpliesChallengeAndFilter ==
    (pos_result # None /\ Val(pos_result).outcome = "return"
        /\ Val(pos_result).value # None) =>
        LET a == Val(pos_args)
            prefix_bits == IF a.pos.version = 1
                           THEN calculate_prefix_bits(a.constants, a.height)
                           ELSE a.constants.NUMBER_ZERO_BITS_PLOT_FILTER_V2
        IN  /\ ExactlyOnePoolTarget(a.pos)
            /\ calculate_pos_challenge(PlotIdOf(a.pos), a.original_challenge_hash,
                                       a.signage_point) = a.pos.challenge
            /\ passes_plot_filter(prefix_bits, PlotIdOf(a.pos),
                                  a.original_challenge_hash, a.signage_point)

\* a quality string was returned for a plot that the filter could have
\* rejected (its prefix bits are not 0)
C12_Witness ==
    /\ pos_result # None
    /\ Val(pos_result).outcome = "return"
    /\ Val(pos_result).value # None
    /\ calculate_prefix_bits(Val(pos_args).constants, Val(pos_args).height) > 0

FilterHeightsOf(constants) ==
    << constants.HARD_FORK_HEIGHT, constants.PLOT_FILTER_128_HEIGHT,
       constants.PLOT_FILTER_64_HEIGHT, constants.PLOT_FILTER_32_HEIGHT >>

OrderedFilterHeights(constants) ==
    \A i \in 1..3 : FilterHeightsOf(constants)[i] <= FilterHeightsOf(constants)[i + 1]

\* the number of transition heights reached at a height
TransitionsReached(constants, height) ==
    Cardinality({ i \in 1..4 : FilterHeightsOf(constants)[i] <= height })

\* C13: for constants with ordered thresholds, calculate_prefix_bits at a
\* height equal to a transition height returns the value reduced for that
\* threshold (one bit per threshold reached, never below 0), which is below
\* the value at height - 1 unless that is already 0.
C13_ReducedAtTransitionHeight ==
    (prefix_bits_result # None /\ OrderedFilterHeights(Val(pos_args).constants)
        /\ \E i \in 1..4 :
              FilterHeightsOf(Val(pos_args).constants)[i] = Val(pos_args).height) =>
        LET a == Val(pos_args)
            bits == a.constants.NUMBER_ZERO_BITS_PLOT_FILTER_V1
        IN  /\ Val(prefix_bits_result)
                  = Max(0, bits - TransitionsReached(a.constants, a.height))
            /\ (a.height > 0 /\ calculate_prefix_bits(a.constants, a.height - 1) > 0)
                  => Val(prefix_bits_result)
                        < calculate_prefix_bits(a.constants, a.height - 1)

\* calculate_prefix_bits was applied at PLOT_FILTER_64_HEIGHT of constants
\* with four different, ordered thresholds and bits left to reduce
C13_Witness ==
    /\ prefix_bits_result # None
    /\ FilterHeightsOf(Val(pos_args).constants) = <<1, 2, 3, 4>>
    /\ Val(pos_args).height = 3
    /\ Val(pos_args).constants.NUMBER_ZERO_BITS_PLOT_FILTER_V1 = 5
    /\ Val(prefix_bits_result) = 2

\* the reduction of the highest threshold that applies at a height, the
\* thresholds taken in the order HARD_FORK_HEIGHT, PLOT_FILTER_128_HEIGHT,
\* PLOT_FILTER_64_HEIGHT, PLOT_FILTER_32_HEIGHT: 0 when none applies
HighestApplicable(constants, height) ==
    LET applicable == { i \in 1..4 : height >= FilterHeightsOf(constants)[i] } IN
    IF applicable = {} THEN 0
    ELSE CHOOSE i \in applicable : \A j \in applicable : j <= i

\* C28: at every height calculate_prefix_bits is
\* max(0, NUMBER_ZERO_BITS_PLOT_FILTER_V1 - r), r being the reduction of the
\* highest threshold that applies (4 for PLOT_FILTER_32_HEIGHT, 3 for
\* PLOT_FILTER_64_HEIGHT, 2 for PLOT_FILTER_128_HEIGHT, 1 for
\* HARD_FORK_HEIGHT, 0 when none applies); the result is never negative
\* and, for ordered thresholds, no larger than at any lower height.
C28_PrefixBitsOfHighestThreshold ==
    prefix_bits_result # None =>
        LET a == Val(pos_args)
            result == Val(prefix_bits_result)
        IN  /\ result = Max(0, a.constants.NUMBER_ZERO_BITS_PLOT_FILTER_V1
                                  - HighestApplicable(a.constants, a.height))
            /\ result >= 0
            /\ OrderedFilterHeights(a.constants) =>
                  \A lower \in 0..a.height :
                      calculate_prefix_bits(a.constants, lower) >= result

\* C28 witness: calculate_prefix_bits was applied at a height where
\* PLOT_FILTER_64_HEIGHT applies and PLOT_FILTER_128_HEIGHT, which is not
\* in order, does not: three of five bits are taken off.
C28_Witness ==
    /\ prefix_bits_result = Some(2)
    /\ Val(pos_args).height = 2
    /\ Val(pos_args).constants.NUMBER_ZERO_BITS_PLOT_FILTER_V1 = 5
    /\ FilterHeightsOf(Val(pos_args).constants) = <<1, 3, 2, 4>>

\* C29: verify_and_get_quality_string completes for every proof of space by
\* returning a quality string or None; it never ends with an exception, a
\* v2 proof of size 28, 30 or 32 that passes the challenge and filter checks
\* included.
C29_Original ==
    pos_result # None => Val(pos_result).outcome = "return"

(***************************************************************************)
(* Claims about missing signage points, checked under SpecSignage.         *)
(***************************************************************************)
\* the latest call had a previous signage point
ComparedWithPrevious == missing_result # None /\ Val(missing_result).prev # None

SameChallengeAsPrevious ==
    Val(Val(missing_result).prev)[2].challenge_hash
        = Val(missing_result).new_signage_point.challenge_hash

\* C14: when the previous signage point has the same challenge_hash as the
\* new one, check_missing_signage_points reports new index - previous
\* index - 1 if that is positive and nothing otherwise, whatever the time
\* between the two.
C14_SameChallengeReportsIndexGap ==
    (ComparedWithPrevious /\ SameChallengeAsPrevious) =>
        LET call == Val(missing_result)
            gap == call.new_signage_point.signage_point_index
                      - Val(call.prev)[2].signage_point_index - 1
        IN  call.result = IF gap > 0 THEN Some(<<call.timestamp, gap>>) ELSE None

\* index 3 followed by index 7 of the same challenge reported 3, although
\* the second arrived before the first
C14_Witness ==
    /\ ComparedWithPrevious
    /\ SameChallengeAsPrevious
    /\ Val(Val(missing_result).prev)[2].signage_point_index = 3
    /\ Val(missing_result).new_signage_point.signage_point_index = 7
    /\ Val(missing_result).timestamp < Val(Val(missing_result).prev)[1]
    /\ Val(missing_result).result = Some(<<Val(missing_result).timestamp, 3>>)

\* C15: when the previous signage point has a different challenge_hash,
\* with dt = new timestamp - previous timestamp and expected_interval =
\* SUB_SLOT_TIME_TARGET / NUM_SPS_SUB_SLOT, check_missing_signage_points
\* reports floor(dt / expected_interval) if dt >= 1.6 * expected_interval
\* and nothing if dt < 1.6 * expected_interval (dt <= 0 included); dt = 2 *
\* expected_interval reports 2.
C15_OtherChallengeReportsSkippedIntervals ==
    (ComparedWithPrevious /\ ~SameChallengeAsPrevious) =>
        LET call == Val(missing_result)
            dt == call.timestamp - Val(call.prev)[1]
            target == Val(sp_constants).SUB_SLOT_TIME_TARGET
            num_sps == Val(sp_constants).NUM_SPS_SUB_SLOT
        IN  /\ 10 * dt * num_sps >= 16 * target
                  => /\ call.result # None
                     /\ Val(call.result)[1] = call.timestamp
                     \* count = floor(dt / (target / num_sps))
                     /\ Val(call.result)[2] * target <= dt * num_sps
                     /\ dt * num_sps < (Val(call.result)[2] + 1) * target
            /\ 10 * dt * num_sps < 16 * target => call.result = None
            /\ dt * num_sps = 2 * target
                  => call.result = Some(<<call.timestamp, 2>>)

\* a signage point of another challenge arrived exactly 1.6 expected
\* intervals after the previous one, and one interval was reported
C15_Witness ==
    /\ ComparedWithPrevious
    /\ ~SameChallengeAsPrevious
    /\ LET call == Val(missing_result)
           dt == call.timestamp - Val(call.prev)[1]
       IN  /\ 10 * dt * Val(sp_constants).NUM_SPS_SUB_SLOT
                 = 16 * Val(sp_constants).SUB_SLOT_TIME_TARGET
           /\ call.result = Some(<<call.timestamp, 1>>)

\* the arguments of the latest call of check_missing_signage_points
LatestSignagePoint == <<Val(missing_result).timestamp, Val(missing_result).new_signage_point>>

\* C30: check_missing_signage_points always replaces prev_signage_point with
\* (timestamp, new_signage_point), on the first call and on every path that
\* reports nothing as well, so each report is computed against the signage
\* point of the call right before it only; the first call reports nothing.
C30_PrevSignagePointAlwaysReplaced ==
    /\ [](missing_result # None =>
             /\ prev_signage_point = Some(LatestSignagePoint)
             /\ Val(missing_result).prev = None => Val(missing_result).result = None)
    /\ [][ /\ missing_result = None => Val(missing_result').result = None
           /\ missing_result # None =>
                 Val(missing_result').result =
                    MissingSignagePoints(Val(sp_constants), LatestSignagePoint,
                                         Val(missing_result').timestamp,
                                         Val(missing_result').new_signage_point) ]_vars

\* a call for a signage point of another challenge reported nothing (it
\* came within the allowance after the one before) and replaced
\* prev_signage_point all the same
C30_Witness ==
    /\ missing_result # None
    /\ Val(missing_result).prev # None
    /\ Val(missing_result).result = None
    /\ Val(Val(missing_result).prev)[2].challenge_hash
          # Val(missing_result).new_signage_point.challenge_hash
    /\ Val(missing_result).timestamp > Val(Val(missing_result).prev)[1]
    /\ prev_signage_point = Some(LatestSignagePoint)

(***************************************************************************)
(* Claims about the farmer's tasks and connections, checked under          *)
(* SpecTasks.                                                              *)
(***************************************************************************)
\* C16: for each harvester connection the HarvesterHandshake is sent at
\* most once, and only by a step that finds started true, shutdown not
\* flagged and the peer among the server's connections; a connection that
\* is not a harvester gets no handshake task and no handshake.
C16_HandshakeOnceAndOnlyWhenStarted ==
    /\ [](\A peer \in DOMAIN handshakes :
            /\ handshakes[peer] <= 1
            /\ ~IsHarvester(peer)
                  => (handshakes[peer] = 0 /\ peer \notin DOMAIN handshake_task))
    /\ [][\A peer \in DOMAIN handshakes :
            (peer \in DOMAIN handshakes' /\ handshakes'[peer] > handshakes[peer])
                => (started /\ ~shut_down /\ peer \in connections)]_vars

\* one harvester got its handshake, a second one that connected before the
\* shutdown gave up without one, and a full node is connected
C16_Witness ==
    /\ "harvester_1" \in DOMAIN handshakes
    /\ handshakes["harvester_1"] = 1
    /\ "harvester_2" \in DOMAIN handshake_task
    /\ handshake_task["harvester_2"] = "shutdown"
    /\ "full_node_1" \in connections

\* C18: the pool-state updater task and the cache sweeper task end only
\* after shutdown has been flagged, whatever fails inside an iteration.
C18_Original ==
    /\ update_pool_state_task \in {"failed", "returned"} => shut_down
    /\ cache_clear_task \in {"failed", "returned"} => shut_down

\* start_task has not ended: it is at its loop check, asleep, or in setup_keys
StartTaskPolls == start_task \in {"running", "setup_keys"}

\* setup_keys has just returned the outcome to start_task
SetupKeysReturned(outcome) ==
    /\ start_task = "setup_keys"
    /\ start_task' # "setup_keys"
    /\ task_log'["start_task"] = outcome

\* C32: while the farmer is not shut down and setup_keys keeps returning
\* False, start_task keeps polling, started stays false and neither
\* periodic task is created; when setup_keys returns True before the
\* shutdown, both periodic tasks are created and started becomes true, and
\* that happens once only.
C32_StartTaskPollsUntilKeys ==
    /\ [](StartTaskPolls =>
             /\ ~started
             /\ update_pool_state_task = "none"
             /\ cache_clear_task = "none")
    /\ [][(SetupKeysReturned("False") /\ ~shut_down) => start_task' = "running"]_vars
    /\ [][(start_task = "running" /\ ~shut_down' /\ start_task' # "running")
             => start_task' = "setup_keys"]_vars
    /\ [][(SetupKeysReturned("True") /\ ~shut_down) =>
             /\ update_pool_state_task = "none" /\ update_pool_state_task' = "running"
             /\ cache_clear_task = "none" /\ cache_clear_task' = "running"
             /\ ~started /\ started']_vars
    /\ [][( (started' /\ ~started)
             \/ (update_pool_state_task' # "none" /\ update_pool_state_task = "none")
             \/ (cache_clear_task' # "none" /\ cache_clear_task = "none") )
             => /\ SetupKeysReturned("True")
                /\ start_task' = "returned"]_vars
    /\ [][start_task = "returned" => start_task' = "returned"]_vars
    /\ (start_task = "running" /\ ~shut_down) ~> (start_task = "setup_keys" \/ shut_down)
    /\ (start_task = "setup_keys") ~> (start_task # "setup_keys")

\* setup_keys returned False and, at a later poll, True, all before any
\* shutdown: both tasks run and started is true
C32_Witness ==
    /\ ~shut_down
    /\ started
    /\ start_task = "returned"
    /\ update_pool_state_task = "running"
    /\ cache_clear_task = "running"
    /\ task_log["start_task"] = "True"

\* the latest iteration of a periodic task, or None before its first one
LatestIteration(log, task) == IF task \in DOMAIN log THEN Some(log[task]) ELSE None

\* the handshake task of the peer exists and has not ended
HandshakeTaskRuns(peer) ==
    /\ peer \in DOMAIN handshake_task
    /\ handshake_task[peer] = "running"

\* manage() has left its finally block, by returning or by the exception
\* of a task it awaited
ManageLeft == manage_pc \in {"closing", "closed", "raised"}

\* C34: once shutdown is flagged every long-lived task ends, given that
\* its pending await completes: the pool-state updater and the cache
\* sweeper return at their next loop check without another iteration,
\* start_task stops polling, and a pending handshake task returns without
\* sending a handshake; manage() gets past its awaits only when the
\* periodic tasks it awaits have finished.
C34_ShutdownEndsEveryTask ==
    /\ [][shut_down =>
            /\ LatestIteration(task_log', "update_pool_state_task")
                  = LatestIteration(task_log, "update_pool_state_task")
            /\ LatestIteration(task_log', "cache_clear_task")
                  = LatestIteration(task_log, "cache_clear_task")
            /\ update_pool_state_task = "running"
                  => update_pool_state_task' \in {"running", "returned"}
            /\ cache_clear_task = "running"
                  => cache_clear_task' \in {"running", "returned"}
            /\ handshakes' = handshakes \/ DOMAIN handshakes' # DOMAIN handshakes
            /\ \A peer \in DOMAIN handshake_task :
                  (handshake_task[peer] = "running" /\ handshake_task'[peer] # "running")
                     => handshake_task'[peer] = "shutdown"]_vars
    /\ [][(ManageLeft' /\ ~ManageLeft) =>
            /\ update_pool_state_task # "running"
            /\ cache_clear_task # "running"]_vars
    /\ shut_down ~> (update_pool_state_task # "running")
    /\ shut_down ~> (cache_clear_task # "running")
    /\ shut_down ~> ~StartTaskPolls
    /\ \A peer \in Harvesters :
          (shut_down /\ HandshakeTaskRuns(peer)) ~> ~HandshakeTaskRuns(peer)
    /\ shut_down ~> (manage_pc \in {"closed", "raised"})

\* after a shutdown that found both periodic tasks and a waiting handshake
\* task, everything has ended: manage() returned, the tasks returned and
\* the handshake task gave up without a handshake
C34_Witness ==
    /\ manage_pc = "closed"
    /\ update_pool_state_task = "returned"
    /\ cache_clear_task = "returned"
    /\ start_task = "returned"
    /\ "harvester_1" \in DOMAIN handshake_task
    /\ handshake_task["harvester_1"] = "shutdown"
    /\ handshakes["harvester_1"] = 0

\* C36: once the shutdown sequence of manage() has completed, started is
\* false and stays false, and no periodic task is created any more, also
\* when the shutdown came while start_task was suspended in setup_keys or
\* in its sleep.
C36_Original ==
    /\ [](manage_pc = "closed" => ~started)
    /\ [][manage_pc = "closed" =>
            /\ update_pool_state_task = "none" => update_pool_state_task' = "none"
            /\ cache_clear_task = "none" => cache_clear_task' = "none"]_vars

(***************************************************************************)
(* Claims about harvester connections, checked under SpecPeers.            *)
(***************************************************************************)
\* the step is a call of on_disconnect
DisconnectStep ==
    /\ delivered' # delivered
    /\ Val(peer_call').handler = "on_disconnect"

\* the positions in the changes emitted by the step that hold the change
PositionsOf(change) ==
    { i \in DOMAIN state_changes' : state_changes'[i].change = change }

ConnectedHarvesters ==
    { connection \in PeerConnections :
        /\ connection.connection_type = "HARVESTER"
        /\ connection.id \in DOMAIN delivered
        /\ delivered[connection.id] = "on_connect" }

\* C37: after any sequence of on_connect and on_disconnect calls, a
\* reconnect of a node id ahead of the disconnect of its old connection
\* included, the keys of plot_sync_receivers are the node ids of the
\* connected harvesters, and no on_disconnect fails for a missing receiver.
C37_Original ==
    /\ DOMAIN plot_sync_receivers
          = { connection.peer_node_id : connection \in ConnectedHarvesters }
    /\ peer_call # None => Val(peer_call).raised = None

(***************************************************************************)
(* Claims about the loop of the pool-state updater, checked under          *)
(* SpecUpdater.                                                            *)
(***************************************************************************)
\* the step is an iteration of the loop, after a wake-up
UpdaterWakes ==
    /\ config_mtime' = config_mtime
    /\ updaterVars' # updaterVars

\* an iteration that finds config.yaml newer than the last recorded access
\* refreshes the root keys, records the mtime and calls update_pool_state
RunsAtOnceWhenConfigChanged ==
    [][(UpdaterWakes /\ config_mtime > last_config_access_time) =>
          /\ iteration_log' = <<"get_all_private_keys", "update_pool_state">>
          /\ last_config_access_time' = config_mtime]_vars

\* C33: while the updater runs, an iteration that finds the mtime of
\* config.yaml newer than the last recorded access time calls
\* update_pool_state at once, after refreshing the root keys, and otherwise
\* update_pool_state is called at least once in every 60 wake-ups.
C33_Original ==
    /\ RunsAtOnceWhenConfigChanged
    /\ [](idle_wakeups < UpdatePoolStateInterval)

\* C33, amended: as above, with update_pool_state called at least once in
\* every 61 wake-ups: at most 60 wake-ups in a row go without a call, and
\* the wake-up after them makes it.
C33_UpdatesWithinSixtyOneWakeups ==
    /\ RunsAtOnceWhenConfigChanged
    /\ [](idle_wakeups <= UpdatePoolStateInterval)
    /\ [][(UpdaterWakes /\ idle_wakeups = UpdatePoolStateInterval) =>
            /\ idle_wakeups' = 0
            /\ "update_pool_state" \in Range(iteration_log')]_vars

\* the call made because of the time slept, with config.yaml unchanged
C33_Witness ==
    /\ iteration_log = <<"update_pool_state">>
    /\ idle_wakeups = 0
    /\ config_mtime = last_config_access_time

(***************************************************************************)
(* Claims about strip_old_entries, checked under SpecStrip.                *)
(***************************************************************************)
\* the positions of the entries of pairs whose timestamp is >= before
RecentEnough(pairs, before) == {i \in DOMAIN pairs : Float(pairs[i][1]) >= before}

\* C20: strip_old_entries(pairs, before) returns the suffix of pairs that
\* starts at the first entry whose timestamp is >= before, which is the
\* whole list when that entry is the first one, and the empty list when no
\* entry has a timestamp >= before: every entry behind the first retained
\* one is kept, in the order of pairs.
C20_ReturnsSuffixFromFirstRecentEntry ==
    strip_result # None =>
        LET pairs == Val(strip_args).pairs
            result == Val(strip_result)
            recent == RecentEnough(pairs, Val(strip_args).before)
        IN  IF recent = {} THEN result = <<>>
            ELSE \E first \in recent :
                    /\ \A i \in recent : first <= i
                    /\ Len(result) = Len(pairs) - first + 1
                    /\ \A i \in 1..Len(result) : result[i] = pairs[first + i - 1]

\* C20 witness: of three entries the first is too old, the second is
\* recent enough and the third is older than the threshold again; the call
\* returned the second and the third.
C20_Witness ==
    /\ strip_result # None
    /\ Val(strip_args).pairs = << <<1, 1>>, <<3, 2>>, <<2, 3>> >>
    /\ Val(strip_args).before = Float(3)
    /\ Val(strip_result) = << <<3, 2>>, <<2, 3>> >>

=============================================================================
